---- MODULE Spec2Model ----
(***************************************************************************)
(* Digital Health Tracker: the localStorage record store                   *)
(* (assets/js/storage.js, StorageManager) as a state machine, and the      *)
(* statistics functions of the dashboard (assets/js/dashboard.js,          *)
(* DashboardManager) as operators applied to drawn inputs.                 *)
(*                                                                         *)
(* The persisted state is the one localStorage item 'healthTrackerData'.   *)
(* Every public method of StorageManager that writes is one action; the    *)
(* read-only methods are operators over the stored item.  Each call runs   *)
(* against an environment `env` that says how localStorage behaves during  *)
(* that call: "ok", "full" (setItem throws QuotaExceededError) or          *)
(* "unavailable" (getItem, setItem and removeItem all throw).              *)
(***************************************************************************)
EXTENDS Integers, Sequences, FiniteSets, TLC

VARIABLES
    store,      \* the localStorage item under STORAGE_KEY
    pending,    \* number of init() calls awaiting the default-data fetch
    last,       \* the most recent call: method, result, fate of its write
    fx,         \* a call of a statistics function: its inputs and its result
    timers,     \* the timeouts set and not yet run or cleared
    created,    \* number of timeouts set so far; the next handle
    clock,      \* the time, in steps of SlotsPerDay to the day
    permission, \* Notification.permission is 'granted'
    shown,      \* handles of the timeouts that showed a reminder at this time
    cancelled,  \* handles of the reminder timeouts that were to be cancelled
    tabs,       \* per tab: where it is in saveEntry and what it has read
    writer,     \* the tab whose write is the stored item
    conversationContext,    \* the chatbot's record of the conversation
    patterns,   \* the chatbot's patterns are loaded
    chats,      \* chat calls so far, and how many were no emergencies
    users,      \* the stored user list (localStorage healthTracker_users)
    session,    \* the stored session (localStorage healthTracker_session)
    currentUser,    \* AuthSystem.currentUser
    initialized,    \* AuthSystem.initialized
    ids,        \* user ids generated so far
    debounced,  \* the function App.debounce returned: its wait and its timeout handle
    log         \* the calls of that function and the runs of func, in order

storageVars == <<store, pending, last>>
timerVars   == <<timers, created, clock, permission, shown, cancelled>>

tabVars     == <<tabs, writer>>
chatVars    == <<conversationContext, patterns, chats>>
authVars    == <<users, session, currentUser, initialized, ids>>
debounceVars == <<debounced, log>>

\* what the methods of StorageManager and of DashboardManager leave alone
beyondStorage   == <<fx, timerVars, tabVars, chatVars, authVars, debounceVars>>
beyondDashboard == <<storageVars, timerVars, tabVars, chatVars, authVars, debounceVars>>
beyondTimers    == <<fx, tabVars, chatVars, authVars, debounceVars>>
beyondTabs      == <<fx, timerVars, chatVars, authVars, debounceVars>>
beyondChat      == <<storageVars, fx, timerVars, tabVars, authVars, debounceVars>>
beyondAuth      == <<storageVars, fx, timerVars, tabVars, chatVars, debounceVars>>
beyondDebounce  == <<storageVars, fx, tabVars, chatVars, authVars>>

vars == <<storageVars, fx, timerVars, tabVars, chatVars, authVars, debounceVars>>

----------------------------------------------------------------------------
(* Bounds of the model *)

NumDates == 2       \* distinct calendar dates entries are drawn from
MaxInits == 1       \* init() calls that may be awaiting the fetch at once
MaxTimers == 3      \* timeouts set in one run
MaxClock == 4       \* instants the time moves through
MaxSaves == 1       \* saveEntry calls of one tab
MaxChats == 22      \* chat calls of one chatbot
MaxGeneral == 2     \* chat calls whose message is no emergency
MaxUsers == 3       \* user ids generated in one browser profile

----------------------------------------------------------------------------
(* Calendar dates.  An entry's date is an ISO string YYYY-MM-DD, modelled  *)
(* as <<y, m, d>>; `new Date(s)` is modelled by DateValue, the day number  *)
(* of the UTC midnight the string denotes (the millisecond timestamp       *)
(* divided by 86400000).                                                   *)

Dates == {<<2023, 12, 31>>} \cup {<<2024, 1, d>> : d \in 1..(NumDates - 1)}

IsLeap(y) == (y % 4 = 0 /\ y % 100 # 0) \/ y % 400 = 0

DaysBeforeMonth(y, m) ==
    <<0, 31, 59, 90, 120, 151, 181, 212, 243, 273, 304, 334>>[m]
        + (IF m > 2 /\ IsLeap(y) THEN 1 ELSE 0)

DateValue(date) ==
    LET y == date[1]  m == date[2]  d == date[3]  p == y - 1
    IN  365 * p + (p \div 4) - (p \div 100) + (p \div 400)
            + DaysBeforeMonth(y, m) + d - 719163

----------------------------------------------------------------------------
(* JavaScript values.  Objects are functions from their own keys to        *)
(* values; null and undefined are tagged records.  The `entries` member of *)
(* a document is either an array, [array |-> <<...>>], or some other       *)
(* truthy value, NonArray.                                                 *)

JNull      == [t |-> "null"]
JUndefined == [t |-> "undefined"]
EmptyObj   == <<>>

ArrayOf(s) == [array |-> s]
NonArray   == [scalar |-> 5]
IsArray(v) == "array" \in DOMAIN v

HasKey(o, k) == k \in DOMAIN o

\* { ...a, ...b }
Merge(a, b) == [k \in DOMAIN a \cup DOMAIN b |-> IF k \in DOMAIN b THEN b[k] ELSE a[k]]

\* o[k] as the operand of a spread: an undefined member spreads nothing
Member(o, k) == IF HasKey(o, k) THEN o[k] ELSE EmptyObj

\* o.k = v
Assign(o, k, v) == [f \in DOMAIN o \cup {k} |-> IF f = k THEN v ELSE o[f]]

\* An entry: its date and the optional fields that are set
Entry(date, fields) == Merge([date |-> date], fields)

EntryFields == {EmptyObj, [steps |-> 5000], [steps |-> 12000]}

\* Entries a caller may pass to saveEntry
EntrySet == {Entry(d, f) : d \in Dates, f \in EntryFields}

Skeleton ==
    [user |-> EmptyObj, goals |-> EmptyObj,
     settings |-> [theme |-> "light", notifications |-> TRUE],
     entries |-> ArrayOf(<<>>)]

\* Entry lists of documents that reach the store from outside it (an
\* imported file, the argument of a direct saveAll): empty, one entry,
\* two entries oldest first, two entries newest first, two entries of
\* the same date.
ExternalLists ==
    LET old  == Entry(<<2023, 12, 31>>, EmptyObj)
        new  == Entry(<<2024, 1, 1>>, [steps |-> 5000])
        new2 == Entry(<<2024, 1, 1>>, [steps |-> 12000])
    IN  {<<>>, <<new>>, <<old, new>>, <<new, old>>, <<new, new2>>}

ExternalDocs ==
    {Assign(Skeleton, "entries", ArrayOf(s)) : s \in ExternalLists}

\* The bundled default dataset /data/default.json, of the document shape
DefaultDataset ==
    [user |-> [name |-> "a"], goals |-> [steps |-> 10000],
     settings |-> [theme |-> "light", notifications |-> TRUE],
     entries |-> ArrayOf(<<Entry(<<2024, 1, 1>>, [steps |-> 5000]),
                           Entry(<<2023, 12, 31>>, [steps |-> 12000])>>)]

----------------------------------------------------------------------------
(* Text.  JSON.stringify(value, null, indent) produces a JSON text that    *)
(* remembers its indentation; a primitive or an empty object prints the    *)
(* same with any indentation.  JSON.stringify(undefined) is undefined,     *)
(* which localStorage.setItem coerces to the text 'undefined'.             *)

NoItem  == [k |-> "none"]
BadText == [k |-> "bad"]
JsonText(v, indent) == [k |-> "json", indent |-> indent, val |-> v]

Stringify(v, indent) ==
    IF v = JUndefined THEN BadText
    ELSE IF v = JNull \/ v = EmptyObj THEN JsonText(v, 0)
    ELSE JsonText(v, indent)

Parses(text) == text.k = "json"
Parse(text)  == text.val

Envs == {"ok", "full", "unavailable"}

RetBool(b) == [t |-> "bool", v |-> b]
Threw      == [t |-> "throw", error |-> "TypeError"]

----------------------------------------------------------------------------
(* The read-only methods, as functions of the stored item and of the       *)
(* environment of the call.                                                *)

\* hasData(): localStorage.getItem(...) !== null, outside any try block
HasDataThrows(env) == env = "unavailable"

\* (variant: data counts only when it parses to a document)
HasDataParsed(st) == st # NoItem /\ Parses(st) /\ Parse(st) # JNull

HasData(st) == st # NoItem

\* getAll(): the parsed item; null when there is none, when it does not
\* parse, or when getItem throws
\* (variant: the parse error is not caught)
GetAllUnguarded(st, env) ==
    IF env = "unavailable" THEN JNull
    ELSE IF st = NoItem THEN JNull
    ELSE IF ~Parses(st) THEN Threw
    ELSE Parse(st)

GetAll(st, env) ==
    IF env = "unavailable" THEN JNull
    ELSE IF st = NoItem THEN JNull
    ELSE IF ~Parses(st) THEN JNull
    ELSE Parse(st)

\* data?.user || {} and the like
GetUserProfile(st, env) ==
    LET data == GetAll(st, env)
    IN  IF data # JNull /\ HasKey(data, "user") THEN data.user ELSE EmptyObj

GetGoals(st, env) ==
    LET data == GetAll(st, env)
    IN  IF data # JNull /\ HasKey(data, "goals") THEN data.goals ELSE EmptyObj

GetSettings(st, env) ==
    LET data == GetAll(st, env)
    IN  IF data # JNull /\ HasKey(data, "settings") THEN data.settings
        ELSE [theme |-> "light", notifications |-> TRUE]

\* getEntries(): data?.entries || []
GetEntries(st, env) ==
    LET data == GetAll(st, env)
    IN  IF data # JNull /\ HasKey(data, "entries") THEN data.entries ELSE ArrayOf(<<>>)

\* entries.findIndex(e => e.date === date); 0 stands for -1
FindIndex(s, date) ==
    IF \E i \in 1..Len(s) : s[i].date = date
    THEN CHOOSE i \in 1..Len(s) : s[i].date = date /\ \A j \in 1..(i - 1) : s[j].date # date
    ELSE 0

\* getEntryByDate(date): entries.find(...), JUndefined when there is none
GetEntryByDate(st, env, date) ==
    LET entries == GetEntries(st, env)
    IN  IF ~IsArray(entries) THEN Threw
        ELSE IF FindIndex(entries.array, date) = 0 THEN JUndefined
        ELSE entries.array[FindIndex(entries.array, date)]

\* (variant: only the entries are exported)
ExportJSONEntriesOnly(st, env) ==
    LET data == IF env = "unavailable" \/ st = NoItem \/ ~Parses(st) THEN JNull ELSE Parse(st)
    IN  IF data = JNull \/ ~HasKey(data, "entries") THEN Stringify(data, 2)
        ELSE Stringify([entries |-> data.entries], 2)

\* exportJSON(): JSON.stringify(getAll(), null, 2)
ExportJSON(st, env) == Stringify(GetAll(st, env), 2)

----------------------------------------------------------------------------
(* The writing methods.  Each returns the item stored afterwards, the      *)
(* value returned to the caller (or Threw), and what became of the write:  *)
(* "none" (no setItem was attempted), "done" or "failed".                  *)

Outcome(st, ret, write) == [store |-> st, ret |-> ret, write |-> write]

\* (variant: the failed write is reported as a success)
SaveAllReportsSuccess(data, st, env) ==
    IF env = "ok"
    THEN Outcome(Stringify(data, 0), RetBool(TRUE), "done")
    ELSE Outcome(st, RetBool(TRUE), "failed")

\* saveAll(data)
SaveAll(data, st, env) ==
    IF env = "ok"
    THEN Outcome(Stringify(data, 0), RetBool(TRUE), "done")
    ELSE Outcome(st, RetBool(FALSE), "failed")

\* updateUserProfile / updateGoals / updateSettings: the three differ only
\* in the member they merge into
UpdateMember(member, patch, st, env) ==
    LET data == GetAll(st, env)
    IN  IF data = JNull THEN Outcome(st, Threw, "none")
        ELSE SaveAll(Assign(data, member, Merge(Member(data, member), patch)), st, env)

UpdateUserProfile(userData, st, env) == UpdateMember("user", userData, st, env)
UpdateGoals(goals, st, env)          == UpdateMember("goals", goals, st, env)
UpdateSettings(settings, st, env)    == UpdateMember("settings", settings, st, env)

\* entries.sort((a, b) => new Date(b.date) - new Date(a.date)): a stable
\* sort, newest first
RECURSIVE InsertDesc(_, _)
InsertDesc(e, s) ==
    IF s = <<>> THEN <<e>>
    ELSE IF DateValue(Head(s).date) - DateValue(e.date) >= 0
         THEN <<Head(s)>> \o InsertDesc(e, Tail(s))
         ELSE <<e>> \o s

\* (variant: the array is left in insertion order)
Unsorted(s) == s

RECURSIVE SortDesc(_)
SortDesc(s) ==
    IF s = <<>> THEN <<>>
    ELSE InsertDesc(s[Len(s)], SortDesc(SubSeq(s, 1, Len(s) - 1)))

\* the upsert of saveEntry on the entries array
Upsert(s, entry) ==
    LET index == FindIndex(s, entry.date)
    IN  IF index > 0
        THEN [s EXCEPT ![index] = Merge(s[index], entry)]
        ELSE Append(s, entry)

\* saveEntry(entry)
SaveEntry(entry, st, env) ==
    LET data == GetAll(st, env)
    IN  IF data = JNull THEN Outcome(st, Threw, "none")
        ELSE LET entries == IF HasKey(data, "entries") THEN data.entries ELSE ArrayOf(<<>>)
             IN  IF ~IsArray(entries) THEN Outcome(st, Threw, "none")
                 ELSE SaveAll(Assign(data, "entries",
                                     ArrayOf(SortDesc(Upsert(entries.array, entry)))),
                              st, env)

\* (variant: the item is read again before the write)
SaveEntryFromFresh(data, entry, st, env) ==
    LET fresh == GetAll(st, env)
    IN  IF fresh = JNull THEN Outcome(st, Threw, "none")
        ELSE LET entries == IF HasKey(fresh, "entries") THEN fresh.entries ELSE ArrayOf(<<>>)
             IN  IF ~IsArray(entries) THEN Outcome(st, Threw, "none")
                 ELSE SaveAll(Assign(fresh, "entries",
                                     ArrayOf(SortDesc(Upsert(entries.array, entry)))),
                              st, env)

\* saveEntry(entry) from the point where getAll() has returned `data`
SaveEntryFrom(data, entry, st, env) ==
    IF data = JNull THEN Outcome(st, Threw, "none")
    ELSE LET entries == IF HasKey(data, "entries") THEN data.entries ELSE ArrayOf(<<>>)
         IN  IF ~IsArray(entries) THEN Outcome(st, Threw, "none")
             ELSE SaveAll(Assign(data, "entries",
                                 ArrayOf(SortDesc(Upsert(entries.array, entry)))),
                          st, env)

\* entries.filter(entry => entry.date !== date)
RECURSIVE FilterOut(_, _)
FilterOut(s, date) ==
    IF s = <<>> THEN <<>>
    ELSE IF Head(s).date # date THEN <<Head(s)>> \o FilterOut(Tail(s), date)
         ELSE FilterOut(Tail(s), date)

\* (variant: the entries older than the date go as well)
DeleteEntryThrough(date, st, env) ==
    LET data == GetAll(st, env)
        Newer(e) == DateValue(e.date) > DateValue(date)
    IN  IF data = JNull THEN Outcome(st, Threw, "none")
        ELSE IF ~HasKey(data, "entries") \/ ~IsArray(data.entries)
             THEN Outcome(st, Threw, "none")
             ELSE SaveAll(Assign(data, "entries", ArrayOf(SelectSeq(data.entries.array, Newer))),
                          st, env)

\* deleteEntry(date)
DeleteEntry(date, st, env) ==
    LET data == GetAll(st, env)
    IN  IF data = JNull THEN Outcome(st, Threw, "none")
        ELSE IF ~HasKey(data, "entries") \/ ~IsArray(data.entries)
             THEN Outcome(st, Threw, "none")
             ELSE SaveAll(Assign(data, "entries", ArrayOf(FilterOut(data.entries.array, date))),
                          st, env)

\* (variant: the end date is excluded)
GetEntriesInRangeOpenEnd(st, env, startDate, endDate) ==
    LET entries == GetEntries(st, env)
        Within(entry) == /\ DateValue(entry.date) >= DateValue(startDate)
                         /\ DateValue(entry.date) < DateValue(endDate)
    IN  IF ~IsArray(entries) THEN Threw ELSE ArrayOf(SelectSeq(entries.array, Within))

\* getEntriesInRange(startDate, endDate): the dates are compared as the
\* instants new Date(...) gives, the UTC midnights of the three dates
GetEntriesInRange(st, env, startDate, endDate) ==
    LET entries == GetEntries(st, env)
        Within(entry) == /\ DateValue(entry.date) >= DateValue(startDate)
                         /\ DateValue(entry.date) <= DateValue(endDate)
    IN  IF ~IsArray(entries) THEN Threw ELSE ArrayOf(SelectSeq(entries.array, Within))

\* array.slice(0, n) for n >= 0
Slice(s, n) == SubSeq(s, 1, IF n < Len(s) THEN n ELSE Len(s))

\* new Date(): the instant of the call, as the day it falls in (UTC) and
\* whether it is the very first millisecond of that day
Instant(day, midnight) == [day |-> day, midnight |-> midnight]

\* (variant: the time of day is dropped from the start of the window)
GetLastNDaysWholeDays(st, env, days, now) ==
    LET entries == GetEntries(st, env)
        Within(entry) == /\ DateValue(entry.date) >= now.day - days
                         /\ DateValue(entry.date) <= now.day
    IN  IF ~IsArray(entries) THEN Threw
        ELSE ArrayOf(Slice(SelectSeq(entries.array, Within), days))

\* getLastNDays(days): endDate is now and startDate is now moved back by
\* `days` days at the same time of day; an entry's date is the midnight
\* that starts its day, so it is >= startDate when its day is later than
\* startDate's, or the same and startDate is that midnight itself
GetLastNDays(st, env, days, now) ==
    LET entries == GetEntries(st, env)
        Within(entry) == /\ \/ DateValue(entry.date) > now.day - days
                            \/ DateValue(entry.date) = now.day - days /\ now.midnight
                         /\ DateValue(entry.date) <= now.day
    IN  IF ~IsArray(entries) THEN Threw
        ELSE ArrayOf(Slice(SelectSeq(entries.array, Within), days))

ImportResult(ok, message) == [t |-> "result", success |-> ok, message |-> message]

\* (variant: any truthy data.entries passes)
ValidStructureAnyEntries(data) == HasKey(data, "entries")

\* the validation of importJSON: data.entries is there and is an array
\* (on null, reading data.entries throws a TypeError)
ValidStructure(data) == HasKey(data, "entries") /\ IsArray(data.entries)

\* importJSON(jsonString)
ImportJSON(text, st, env) ==
    IF ~Parses(text) THEN Outcome(st, ImportResult(FALSE, "SyntaxError"), "none")
    ELSE LET data == Parse(text)
         IN  IF data = JNull
             THEN Outcome(st, ImportResult(FALSE, "TypeError"), "none")
             ELSE IF ~ValidStructure(data)
             THEN Outcome(st, ImportResult(FALSE, "Invalid data format"), "none")
             ELSE LET saved == SaveAll(data, st, env)
                  IN  Outcome(saved.store,
                              ImportResult(TRUE, "Data imported successfully"),
                              saved.write)

\* (variant: nothing is stored when the fetch fails)
LoadDefaultDataNoFallback(fetched, st, env) ==
    IF fetched # JUndefined
    THEN Outcome(Stringify(fetched, 0), RetBool(TRUE), "done")
    ELSE Outcome(st, RetBool(FALSE), "none")

\* loadDefaultData() once its two awaits (fetch, response.json()) have
\* settled; nothing of the store is touched between them.  `fetched` is the
\* parsed default dataset, or JUndefined when the fetch or the parse failed
LoadDefaultData(fetched, st, env) ==
    IF fetched # JUndefined
    THEN LET saved == SaveAll(fetched, st, env)
         IN  Outcome(saved.store, RetBool(TRUE), saved.write)
    ELSE LET saved == SaveAll(Skeleton, st, env)
         IN  Outcome(saved.store, RetBool(FALSE), saved.write)

\* init() up to its await: rejects when hasData() throws, resolves at once
\* when hasData(), and otherwise awaits the fetch of loadDefaultData
InitCall(st, env) ==
    IF HasDataThrows(env) THEN Outcome(st, Threw, "none")
    ELSE IF HasData(st) THEN Outcome(st, [t |-> "resolved"], "none")
    ELSE Outcome(st, [t |-> "awaiting"], "none")

\* clearAll(): localStorage.removeItem, outside any try block
ClearAll(st, env) ==
    IF env = "unavailable" THEN Outcome(st, Threw, "none")
    ELSE Outcome(NoItem, JUndefined, "none")

----------------------------------------------------------------------------
(* Numbers of the dashboard.  A JavaScript number is NaN or an exact       *)
(* fraction in lowest terms with a positive denominator; the inputs are    *)
(* integers and +, -, *, / follow the arithmetic of fractions (the results *)
(* met here are far from the precision limits of a double).                *)

NaN == [nan |-> TRUE]
IsNaN(x) == "nan" \in DOMAIN x

Abs(n) == IF n < 0 THEN -n ELSE n

RECURSIVE Gcd(_, _)
Gcd(a, b) == IF b = 0 THEN a ELSE Gcd(b, a % b)

\* n / d for integers n and d, d not 0
Frac(n, d) ==
    LET g == Gcd(Abs(n), Abs(d))
    IN  IF d > 0 THEN [num |-> n \div g, den |-> d \div g]
        ELSE [num |-> (-n) \div g, den |-> (-d) \div g]

Whole(n) == Frac(n, 1)

Plus(x, y) ==
    IF IsNaN(x) \/ IsNaN(y) THEN NaN
    ELSE Frac(x.num * y.den + y.num * x.den, x.den * y.den)

Times(x, k) == IF IsNaN(x) THEN NaN ELSE Frac(x.num * k, x.den)

\* x < y; false when either is NaN
Less(x, y) == ~IsNaN(x) /\ ~IsNaN(y) /\ x.num * y.den < y.num * x.den

\* Math.min and Math.max: NaN when an argument is NaN
MathMin(x, y) == IF IsNaN(x) \/ IsNaN(y) THEN NaN ELSE IF Less(y, x) THEN y ELSE x
MathMax(x, y) == IF IsNaN(x) \/ IsNaN(y) THEN NaN ELSE IF Less(x, y) THEN y ELSE x

\* (variant: the fraction is cut off)
MathTrunc(x) ==
    IF IsNaN(x) THEN NaN
    ELSE IF x.num >= 0 THEN Whole(x.num \div x.den) ELSE Whole(-((-x.num) \div x.den))

\* Math.round: the nearest integer, a half going up (towards +infinity)
MathRound(x) ==
    IF IsNaN(x) THEN NaN ELSE Whole((2 * x.num + x.den) \div (2 * x.den))

----------------------------------------------------------------------------
(* The statistics functions of the dashboard.  They are handed the list    *)
(* getEntries() returned (or null) and the goals object; an entry is read  *)
(* through its metric fields only, so the entries here carry no date.  A   *)
(* heartRate goal is a range [min |-> .., max |-> ..] or a plain number,   *)
(* [number |-> ..].                                                        *)

\* a goal that a condition `goals.x` lets through: defined and not 0
Truthy(goals, k) ==
    /\ HasKey(goals, k)
    /\ "number" \in DOMAIN goals[k] => goals[k].number # 0

\* (variant: no cap)
Uncapped(value, goal, weight) == Times(Frac(value, goal), weight)

\* Math.min((value / goal) * weight, weight)
Capped(value, goal, weight) ==
    MathMin(Times(Frac(value, goal), weight), Whole(weight))

\* the heartRate component: const { min, max } = goals.heartRate leaves both
\* undefined for a plain number, every comparison with undefined is false
\* and the deviation is NaN
HeartRateComponent(heartRate, goal) ==
    IF ~(HasKey(goal, "min") /\ HasKey(goal, "max")) THEN NaN
    ELSE IF heartRate >= goal.min /\ heartRate <= goal.max THEN Whole(15)
    ELSE MathMax(Frac(150 - Abs(2 * heartRate - (goal.min + goal.max)), 10), Whole(0))

\* the value of a numeric goal
GoalValue(goals, k) == goals[k].number

\* calculateHealthScore(entries, goals)
CalculateHealthScore(entries, goals) ==
    IF entries = JNull \/ Len(entries.array) = 0 THEN Whole(0)
    ELSE
      LET latest == entries.array[1]
          s1 == IF HasKey(latest, "steps") /\ Truthy(goals, "steps")
                THEN Capped(latest.steps, GoalValue(goals, "steps"), 25) ELSE Whole(0)
          s2 == IF HasKey(latest, "sleep") /\ Truthy(goals, "sleep")
                THEN Capped(latest.sleep, GoalValue(goals, "sleep"), 25) ELSE Whole(0)
          s3 == IF HasKey(latest, "water") /\ Truthy(goals, "water")
                THEN Capped(latest.water, GoalValue(goals, "water"), 20) ELSE Whole(0)
          s4 == IF HasKey(latest, "heartRate") /\ Truthy(goals, "heartRate")
                THEN HeartRateComponent(latest.heartRate, goals.heartRate) ELSE Whole(0)
          s5 == IF HasKey(latest, "calories") /\ Truthy(goals, "calories")
                THEN Capped(latest.calories, GoalValue(goals, "calories"), 15) ELSE Whole(0)
      IN  MathRound(Plus(Plus(Plus(Plus(s1, s2), s3), s4), s5))

Flag(type, message, metric) == [type |-> type, message |-> message, metric |-> metric]

SleepFlag     == Flag("danger", "Insufficient sleep detected (<6 hours)", "sleep")
HeartRateFlag == Flag("warning", "Elevated resting heart rate (>100 bpm)", "heartRate")
WaterFlag     == Flag("warning", "Low water intake (<3 glasses)", "water")
StepsFlag     == Flag("warning", "Very low activity level (<2000 steps)", "steps")
ChronicFlag   == Flag("danger", "Chronic sleep deprivation detected (3+ days)", "sleep")

\* flags.push(flag) under a condition
PushIf(cond, flag) == IF cond THEN <<flag>> ELSE <<>>

\* e.sleep || 0
SleepOrZero(e) == IF HasKey(e, "sleep") THEN e.sleep ELSE 0

\* (variant: the water flag is pushed before the heart rate flag)
DetectHealthFlagsWaterFirst(entries, goals) ==
    IF entries = JNull \/ Len(entries.array) = 0 THEN <<>>
    ELSE
      LET latest == entries.array[1]
          list   == entries.array
      IN  PushIf(HasKey(latest, "sleep") /\ latest.sleep < 6, SleepFlag)
          \o PushIf(HasKey(latest, "water") /\ latest.water < 3, WaterFlag)
          \o PushIf(HasKey(latest, "heartRate") /\ latest.heartRate > 100, HeartRateFlag)
          \o PushIf(HasKey(latest, "steps") /\ latest.steps < 2000, StepsFlag)
          \o PushIf(Len(list) >= 3 /\ \A i \in 1..3 : SleepOrZero(list[i]) < 6, ChronicFlag)

\* detectHealthFlags(entries, goals): a comparison with a missing field
\* (undefined) is false
DetectHealthFlags(entries, goals) ==
    IF entries = JNull \/ Len(entries.array) = 0 THEN <<>>
    ELSE
      LET latest == entries.array[1]
          list   == entries.array
      IN  PushIf(HasKey(latest, "sleep") /\ latest.sleep < 6, SleepFlag)
          \o PushIf(HasKey(latest, "heartRate") /\ latest.heartRate > 100, HeartRateFlag)
          \o PushIf(HasKey(latest, "water") /\ latest.water < 3, WaterFlag)
          \o PushIf(HasKey(latest, "steps") /\ latest.steps < 2000, StepsFlag)
          \o PushIf(Len(list) >= 3 /\ \A i \in 1..3 : SleepOrZero(list[i]) < 6, ChronicFlag)

\* e.x || 0
FieldOrZero(e, k) == IF HasKey(e, k) THEN e[k] ELSE 0

\* entries.reduce((sum, e) => sum + (e.x || 0), 0)
RECURSIVE Reduce(_, _)
Reduce(list, k) ==
    IF list = <<>> THEN 0 ELSE FieldOrZero(Head(list), k) + Reduce(Tail(list), k)

\* the number of entries that have the member k
RECURSIVE CountField(_, _)
CountField(list, k) ==
    IF list = <<>> THEN 0
    ELSE (IF HasKey(Head(list), k) THEN 1 ELSE 0) + CountField(Tail(list), k)

Stats(steps, heartRate, sleep, water, calories, total) ==
    [avgSteps |-> steps, avgHeartRate |-> heartRate, avgSleep |-> sleep,
     avgWater |-> water, avgCalories |-> calories, totalEntries |-> total]

\* (variant: a field is averaged over the entries that have it)
CalculateStatsOverPresent(entries) ==
    IF entries = JNull \/ Len(entries.array) = 0
    THEN Stats(Whole(0), Whole(0), Whole(0), Whole(0), Whole(0), 0)
    ELSE
      LET list == entries.array
          Avg(k) == IF CountField(list, k) = 0 THEN Whole(0)
                    ELSE Frac(Reduce(list, k), CountField(list, k))
      IN  Stats(Avg("steps"), Avg("heartRate"), Avg("sleep"), Avg("water"),
                Avg("calories"), Len(list))

\* calculateStats(entries)
CalculateStats(entries) ==
    IF entries = JNull \/ Len(entries.array) = 0
    THEN Stats(Whole(0), Whole(0), Whole(0), Whole(0), Whole(0), 0)
    ELSE
      LET list == entries.array
          Avg(k) == Frac(Reduce(list, k), Len(list))
      IN  Stats(Avg("steps"), Avg("heartRate"), Avg("sleep"), Avg("water"),
                Avg("calories"), Len(list))

----------------------------------------------------------------------------
(* The state machine *)

Call(op, out) == [op |-> op, ret |-> out.ret, write |-> out.write]

Apply(op, out) ==
    /\ store' = out.store
    /\ last' = Call(op, out)
    /\ UNCHANGED <<pending, beyondStorage>>

SaveAllArgs    == {Skeleton, Assign(Skeleton, "entries", NonArray), EmptyObj,
                   JNull, JUndefined}
ImportPayloads == {BadText}
                    \cup {Stringify(v, 0) : v \in ExternalDocs \cup
                            {JNull, EmptyObj, Assign(Skeleton, "entries", NonArray)}}
UserPatches    == {[name |-> "a"]}
GoalPatches    == {[steps |-> 10000]}
SettingPatches == {[theme |-> "dark"]}
FetchResults   == {DefaultDataset, JUndefined}

\* no statistics function is being called
NoCall == [fn |-> "none"]

\* the tabs that share the storage; none is inside saveEntry
Tabs == {"A", "B"}

IdleTab == [pc |-> "idle", saves |-> 0]

NoTabs ==
    /\ tabs = [tab \in Tabs |-> IdleTab]
    /\ writer = "none"

\* no stored session
NoSession == [k |-> "none"]

\* an AuthSystem as its constructor leaves it, in a browser profile that has
\* no users and no session stored
NoAuth ==
    /\ users = <<>>
    /\ session = NoSession
    /\ currentUser = JNull
    /\ initialized = FALSE
    /\ ids = 0

\* App.debounce has not been called
NoFunction == [k |-> "none"]

NoDebounce ==
    /\ debounced = NoFunction
    /\ log = <<>>

\* a chatbot as its constructor leaves it
NoConversation ==
    /\ conversationContext = <<>>
    /\ patterns = FALSE
    /\ chats = [calls |-> 0, general |-> 0]

\* a page that has set no timeout and has not been granted notifications
NoTimers ==
    /\ timers = {}
    /\ created = 0
    /\ clock = 0
    /\ permission = FALSE
    /\ shown = {}
    /\ cancelled = {}

Init ==
    /\ store = NoItem
    /\ pending = 0
    /\ last = [op |-> "none", ret |-> JUndefined, write |-> "none"]
    /\ fx = NoCall
    /\ NoTimers
    /\ NoTabs
    /\ NoConversation
    /\ NoAuth
    /\ NoDebounce

CallInit(env) ==
    /\ pending < MaxInits
    /\ LET out == InitCall(store, env)
       IN  /\ store' = out.store
           /\ last' = Call("init", out)
           /\ pending' = IF out.ret = [t |-> "awaiting"] THEN pending + 1 ELSE pending
    /\ UNCHANGED beyondStorage

\* the fetch of one waiting init() settles; loadDefaultData and init finish
FetchSettled(fetched, env) ==
    /\ pending > 0
    /\ pending' = pending - 1
    /\ LET out == LoadDefaultData(fetched, store, env)
       IN  /\ store' = out.store
           /\ last' = Call("loadDefaultData", out)
    /\ UNCHANGED beyondStorage

CallSaveAll(data, env) == Apply("saveAll", SaveAll(data, store, env))

CallUpdateUserProfile(patch, env) ==
    Apply("updateUserProfile", UpdateUserProfile(patch, store, env))

CallUpdateGoals(patch, env) == Apply("updateGoals", UpdateGoals(patch, store, env))

CallUpdateSettings(patch, env) == Apply("updateSettings", UpdateSettings(patch, store, env))

CallSaveEntry(entry, env) == Apply("saveEntry", SaveEntry(entry, store, env))

CallDeleteEntry(date, env) == Apply("deleteEntry", DeleteEntry(date, store, env))

CallImportJSON(text, env) == Apply("importJSON", ImportJSON(text, store, env))

\* importJSON(exportJSON())
CallImportExported(envExport, envImport) ==
    Apply("importExported", ImportJSON(ExportJSON(store, envExport), store, envImport))

CallClearAll(env) == Apply("clearAll", ClearAll(store, env))

\* no init() is waiting for its fetch
Idle == pending = 0

(* The store in use.  App.init awaits StorageManager.init() before the    *)
(* page goes on, so here the methods are called once no fetch is pending; *)
(* the settling fetch writes the same documents whenever it runs, so the  *)
(* stored items reached are those of every interleaving.                  *)
Next ==
    \/ \E env \in Envs : CallInit(env)
    \/ \E fetched \in FetchResults, env \in Envs : FetchSettled(fetched, env)
    \/ Idle /\ \E data \in SaveAllArgs, env \in Envs : CallSaveAll(data, env)
    \/ Idle /\ \E patch \in UserPatches, env \in Envs : CallUpdateUserProfile(patch, env)
    \/ Idle /\ \E patch \in GoalPatches, env \in Envs : CallUpdateGoals(patch, env)
    \/ Idle /\ \E patch \in SettingPatches, env \in Envs : CallUpdateSettings(patch, env)
    \/ Idle /\ \E entry \in EntrySet, env \in Envs : CallSaveEntry(entry, env)
    \/ Idle /\ \E date \in Dates, env \in Envs : CallDeleteEntry(date, env)
    \/ Idle /\ \E text \in ImportPayloads, env \in Envs : CallImportJSON(text, env)
    \/ Idle /\ \E envExport \in Envs, envImport \in Envs :
                  CallImportExported(envExport, envImport)
    \/ Idle /\ \E env \in Envs : CallClearAll(env)

Spec == Init /\ [][Next]_vars

(* Startup.  The calls that other handlers make while the fetch of an     *)
(* init() is still pending, interleaved with it in every order.           *)
NextStartup ==
    \/ \E env \in Envs : CallInit(env)
    \/ \E fetched \in FetchResults, env \in Envs : FetchSettled(fetched, env)
    \/ \E data \in SaveAllArgs, env \in Envs : CallSaveAll(data, env)
    \/ \E entry \in EntrySet, env \in Envs : CallSaveEntry(entry, env)
    \/ \E date \in Dates, env \in Envs : CallDeleteEntry(date, env)
    \/ \E text \in ImportPayloads, env \in Envs : CallImportJSON(text, env)
    \/ \E env \in Envs : CallClearAll(env)

SpecStartup == Init /\ [][NextStartup]_vars

(* The read methods.  A read leaves the item alone; the call is recorded   *)
(* with its arguments and what it returned.  As in Spec, the methods are   *)
(* called once no fetch is pending.                                        *)

Read(op, arg, ret) ==
    /\ last' = [op |-> op, arg |-> arg, ret |-> ret, write |-> "none"]
    /\ UNCHANGED <<store, pending, beyondStorage>>

CallGetAll(env)         == Read("getAll", <<>>, GetAll(store, env))
CallGetUserProfile(env) == Read("getUserProfile", <<>>, GetUserProfile(store, env))
CallGetGoals(env)       == Read("getGoals", <<>>, GetGoals(store, env))
CallGetSettings(env)    == Read("getSettings", <<>>, GetSettings(store, env))
CallGetEntries(env)     == Read("getEntries", <<>>, GetEntries(store, env))

CallGetEntriesInRange(startDate, endDate, env) ==
    Read("getEntriesInRange", <<startDate, endDate>>,
         GetEntriesInRange(store, env, startDate, endDate))

CallGetLastNDays(days, now, env) ==
    Read("getLastNDays", <<days, now>>, GetLastNDays(store, env, days, now))

\* the numbers of days asked for
DayCounts == {0, 1, 2}

\* the instants a call can happen at: in a day that has an entry or in the
\* day after the last of them, at its midnight or later in the day
Nows ==
    LET days == {DateValue(d) : d \in Dates}
    IN  {Instant(day, midnight) :
            day \in days \cup {n + 1 : n \in days}, midnight \in BOOLEAN}

NextReads ==
    \/ \E env \in Envs : CallInit(env)
    \/ \E fetched \in FetchResults, env \in Envs : FetchSettled(fetched, env)
    \/ Idle /\ \E data \in SaveAllArgs, env \in Envs : CallSaveAll(data, env)
    \/ Idle /\ \E entry \in EntrySet, env \in Envs : CallSaveEntry(entry, env)
    \/ Idle /\ \E date \in Dates, env \in Envs : CallDeleteEntry(date, env)
    \/ Idle /\ \E text \in ImportPayloads, env \in Envs : CallImportJSON(text, env)
    \/ Idle /\ \E env \in Envs : CallGetAll(env)
    \/ Idle /\ \E env \in Envs : CallGetUserProfile(env)
    \/ Idle /\ \E env \in Envs : CallGetGoals(env)
    \/ Idle /\ \E env \in Envs : CallGetSettings(env)
    \/ Idle /\ \E env \in Envs : CallGetEntries(env)
    \/ Idle /\ \E startDate \in Dates, endDate \in Dates, env \in Envs :
          CallGetEntriesInRange(startDate, endDate, env)
    \/ Idle /\ \E days \in DayCounts, now \in Nows, env \in Envs :
          CallGetLastNDays(days, now, env)

SpecReads == Init /\ [][NextReads]_vars

(* The dashboard.  A call of a statistics function is drawn with its       *)
(* arguments, then the function runs and the call holds its result.        *)

\* an object with the member k or without it
Opt(k, values) == {EmptyObj} \cup {(k :> v) : v \in values}

\* a numeric goal
Num(v) == [number |-> v]

\* the values of the metrics of an entry handed to calculateHealthScore
MetricValues ==
    [steps |-> {-1000, 0, 5000, 12000}, sleep |-> {4, 8}, water |-> {2, 8},
     heartRate |-> {50, 70, 150}, calories |-> {1100, 2200}]

\* latest entries handed to calculateHealthScore
ScoreEntries ==
    {Merge(a, Merge(b, Merge(c, Merge(d, e)))) :
        a \in Opt("steps", MetricValues.steps),
        b \in Opt("sleep", MetricValues.sleep),
        c \in Opt("water", MetricValues.water),
        d \in Opt("heartRate", MetricValues.heartRate),
        e \in Opt("calories", MetricValues.calories)}

ScoreLists == {JNull, ArrayOf(<<>>)} \cup {ArrayOf(<<e>>) : e \in ScoreEntries}

\* goals objects: a steps goal that is missing, zero, positive or negative;
\* a heartRate goal that is missing, a range or a plain number
ScoreGoals ==
    {Merge(a, Merge(b, Merge(c, d))) :
        a \in Opt("steps", {Num(0), Num(10000), Num(-10000)}),
        b \in Opt("sleep", {Num(8)}),
        c \in {EmptyObj, [water |-> Num(8), calories |-> Num(2200)]},
        d \in Opt("heartRate", {[min |-> 60, max |-> 80], Num(70)})}

\* latest entries handed to detectHealthFlags, and the entries before them
FlagEntries ==
    {Merge(a, Merge(b, Merge(c, d))) :
        a \in Opt("sleep", {0, 5, 6}),
        b \in Opt("heartRate", {100, 101}),
        c \in Opt("water", {2, 3}),
        d \in Opt("steps", {1999, 2000})}

OlderEntries == Opt("sleep", {0, 5, 6})

FlagLists ==
    {JNull, ArrayOf(<<>>)}
    \cup {ArrayOf(<<e>>) : e \in FlagEntries}
    \cup {ArrayOf(<<e, o1>>) : e \in FlagEntries, o1 \in OlderEntries}
    \cup {ArrayOf(<<e, o1, o2>>) : e \in FlagEntries, o1 \in OlderEntries, o2 \in OlderEntries}

\* entries handed to calculateStats
StatEntries ==
    {EmptyObj,
     [steps |-> 5000],
     [steps |-> 12000, sleep |-> 8],
     [heartRate |-> 70, water |-> 8, calories |-> 2200],
     [steps |-> 0, heartRate |-> 110, sleep |-> 5, water |-> 2, calories |-> 1100]}

StatLists ==
    {JNull, ArrayOf(<<>>)}
    \cup {ArrayOf(<<a>>) : a \in StatEntries}
    \cup {ArrayOf(<<a, b>>) : a \in StatEntries, b \in StatEntries}
    \cup {ArrayOf(<<a, b, c>>) : a \in StatEntries, b \in StatEntries, c \in StatEntries}

DashboardCalls ==
    {[fn |-> "calculateHealthScore", entries |-> entries, goals |-> goals] :
        entries \in ScoreLists, goals \in ScoreGoals}
    \cup
    {[fn |-> "detectHealthFlags", entries |-> entries, goals |-> goals] :
        entries \in FlagLists, goals \in {EmptyObj}}
    \cup
    {[fn |-> "calculateStats", entries |-> entries, goals |-> goals] :
        entries \in StatLists, goals \in {EmptyObj}}

InitDashboard ==
    /\ store = NoItem
    /\ pending = 0
    /\ last = [op |-> "none", ret |-> JUndefined, write |-> "none"]
    /\ fx \in DashboardCalls
    /\ NoTimers
    /\ NoTabs
    /\ NoConversation
    /\ NoAuth
    /\ NoDebounce

Returned == "result" \in DOMAIN fx

RunCalculateHealthScore ==
    /\ fx.fn = "calculateHealthScore" /\ ~Returned
    /\ fx' = [fn |-> fx.fn, entries |-> fx.entries, goals |-> fx.goals,
              result |-> CalculateHealthScore(fx.entries, fx.goals)]
    /\ UNCHANGED beyondDashboard

RunDetectHealthFlags ==
    /\ fx.fn = "detectHealthFlags" /\ ~Returned
    /\ fx' = [fn |-> fx.fn, entries |-> fx.entries, goals |-> fx.goals,
              result |-> DetectHealthFlags(fx.entries, fx.goals)]
    /\ UNCHANGED beyondDashboard

RunCalculateStats ==
    /\ fx.fn = "calculateStats" /\ ~Returned
    /\ fx' = [fn |-> fx.fn, entries |-> fx.entries, goals |-> fx.goals,
              result |-> CalculateStats(fx.entries)]
    /\ UNCHANGED beyondDashboard

NextDashboard ==
    \/ RunCalculateHealthScore
    \/ RunDetectHealthFlags
    \/ RunCalculateStats

SpecDashboard == InitDashboard /\ [][NextDashboard]_vars

(* The daily reminder (NotificationManager in assets/js/auth.js, called    *)
(* from App.init).  The day is cut into SlotsPerDay instants; each reminder *)
(* time is one of them.  A timeout is its handle, the reminder time it was *)
(* set for and the instant it is due; a due timeout runs before the time   *)
(* moves on.                                                               *)

\* instants to the day: the two reminder times
SlotsPerDay == 2

ReminderTimes == {"09:00", "21:00"}

\* the instant of the day a reminder time names
Slot(time) == IF time = "09:00" THEN 0 ELSE 1

\* scheduledTime: today at `time`, or tomorrow when that is not after now
ScheduledTime(time, now) ==
    LET today == now - (now % SlotsPerDay) + Slot(time)
    IN  IF today <= now THEN today + SlotsPerDay ELSE today

Timeout(handle, time, due) == [id |-> handle, time |-> time, due |-> due]

Handles(T) == {t.id : t \in T}

\* the timeouts after scheduleDailyReminder(time): one more when permission
\* is granted, the same otherwise
AfterSchedule(time, T, n, now, granted) ==
    IF ~granted THEN T
    ELSE T \cup {Timeout(n + 1, time, ScheduledTime(time, now))}

\* scheduleDailyReminder(time), from any caller
CallScheduleDailyReminder(time) ==
    /\ created < MaxTimers
    /\ timers' = AfterSchedule(time, timers, created, clock, permission)
    /\ created' = IF permission THEN created + 1 ELSE created
    /\ cancelled' = IF permission THEN cancelled \cup Handles(timers) ELSE cancelled
    /\ UNCHANGED <<storageVars, beyondTimers, clock, permission, shown>>

\* the notification part of App.init, after the awaited StorageManager.init():
\* with settings.notifications the permission is asked for and granted or not,
\* and with settings.reminderTime the reminder is scheduled
AppInitNotifications(granted) ==
    /\ pending = 0 /\ store # NoItem
    /\ created < MaxTimers
    /\ LET settings == GetSettings(store, "ok")
           asked    == HasKey(settings, "notifications") /\ settings.notifications
           allowed  == IF asked THEN permission \/ granted ELSE permission
           sets     == asked /\ HasKey(settings, "reminderTime") /\ allowed
       IN  /\ permission' = allowed
           /\ timers' = IF asked /\ HasKey(settings, "reminderTime")
                        THEN AfterSchedule(settings.reminderTime, timers, created, clock, allowed)
                        ELSE timers
           /\ created' = IF sets THEN created + 1 ELSE created
           /\ cancelled' = IF sets THEN cancelled \cup Handles(timers) ELSE cancelled
    /\ UNCHANGED <<storageVars, beyondTimers, clock, shown>>

\* the user takes the permission back in the browser
RevokePermission ==
    /\ permission
    /\ permission' = FALSE
    /\ UNCHANGED <<storageVars, beyondTimers, timers, created, clock, shown, cancelled>>

ReminderSettings ==
    {[reminderTime |-> time] : time \in ReminderTimes} \cup {[notifications |-> TRUE]}

\* updateSettings({reminderTime}) or updateSettings({notifications: true})
CallUpdateReminderSettings(patch) ==
    Apply("updateSettings", UpdateSettings(patch, store, "ok"))

\* updateSettings({notifications: false}): the pending reminder timeouts are
\* the ones that are to be cancelled
CallDisableNotifications ==
    /\ LET out == UpdateSettings([notifications |-> FALSE], store, "ok")
       IN  /\ store' = out.store
           /\ last' = Call("updateSettings", out)
           /\ cancelled' = IF out.write = "done" THEN cancelled \cup Handles(timers)
                           ELSE cancelled
    /\ UNCHANGED <<pending, beyondTimers, timers, created, clock, permission, shown>>

\* the callback of a reminder timeout that is due: showHealthReminder() shows
\* a notification when permission is granted, then scheduleDailyReminder(time)
TimeoutRuns(t) ==
    /\ t \in timers /\ t.due <= clock
    /\ created < MaxTimers
    /\ shown' = IF permission THEN shown \cup {t.id} ELSE shown
    /\ timers' = AfterSchedule(t.time, timers \ {t}, created, clock, permission)
    /\ created' = IF permission THEN created + 1 ELSE created
    /\ cancelled' = IF permission THEN cancelled \cup Handles(timers \ {t}) ELSE cancelled
    /\ UNCHANGED <<storageVars, beyondTimers, clock, permission>>

\* time moves on to the next instant once no timeout is due
TimePasses ==
    /\ clock < MaxClock
    /\ \A t \in timers : t.due > clock
    /\ clock' = clock + 1
    /\ shown' = {}
    /\ UNCHANGED <<storageVars, beyondTimers, timers, created, permission, cancelled>>

NextReminder ==
    \/ CallInit("ok")
    \/ \E fetched \in FetchResults : FetchSettled(fetched, "ok")
    \/ \E patch \in ReminderSettings : CallUpdateReminderSettings(patch)
    \/ CallDisableNotifications
    \/ \E granted \in BOOLEAN : AppInitNotifications(granted)
    \/ \E time \in ReminderTimes : CallScheduleDailyReminder(time)
    \/ RevokePermission
    \/ \E t \in timers : TimeoutRuns(t)
    \/ TimePasses

SpecReminder == Init /\ [][NextReminder]_vars

(* Two tabs on one storage.  Each tab runs saveEntry in two steps, the     *)
(* getItem inside getAll() and the rest up to the setItem inside saveAll(); *)
(* between the two the other tab may run.  A tab remembers, next to what   *)
(* it read, the dates the other tab has written since.                     *)

\* the tab, its init() complete, calls saveEntry(entry) and getAll() reads
\* the item
TabReads(tab, entry) ==
    /\ Idle
    /\ tabs[tab].pc # "read"
    /\ tabs[tab].saves < MaxSaves
    /\ tabs' = [tabs EXCEPT ![tab] = [pc |-> "read", saves |-> @.saves + 1,
                                       entry |-> entry, data |-> GetAll(store, "ok"),
                                       missed |-> {}]]
    /\ UNCHANGED <<storageVars, writer, beyondTabs>>

\* the tab merges, sorts and writes, and saveEntry returns
TabWrites(tab) ==
    /\ tabs[tab].pc = "read"
    /\ LET t   == tabs[tab]
           out == SaveEntryFrom(t.data, t.entry, store, "ok")
           Seen(other) ==
               IF other.pc = "read" /\ out.write = "done"
               THEN [other EXCEPT !.missed = @ \cup {t.entry.date}]
               ELSE other
       IN  /\ store' = out.store
           /\ last' = Call("saveEntry", out)
           /\ writer' = IF out.write = "done" THEN tab ELSE writer
           /\ tabs' = [x \in Tabs |->
                          IF x = tab
                          THEN [pc |-> "returned", saves |-> t.saves,
                                entry |-> t.entry, data |-> t.data,
                                missed |-> t.missed, ret |-> out.ret,
                                wrote |-> out.write = "done"]
                          ELSE Seen(tabs[x])]
    /\ UNCHANGED <<pending, beyondTabs>>

\* Entries a tab saves: of every date, without and with a field
TabEntries == {Entry(d, f) : d \in Dates, f \in {EmptyObj, [steps |-> 12000]}}

\* no tab has called saveEntry yet
Untouched == \A tab \in Tabs : tabs[tab] = IdleTab

NextTabs ==
    \/ CallInit("ok")
    \/ \E fetched \in FetchResults : FetchSettled(fetched, "ok")
    \/ \E text \in ImportPayloads : Untouched /\ CallImportJSON(text, "ok")
    \/ \E tab \in Tabs, entry \in TabEntries : TabReads(tab, entry)
    \/ \E tab \in Tabs : TabWrites(tab)

SpecTabs == Init /\ [][NextTabs]_vars

----------------------------------------------------------------------------
(* RecommendationEngine.analyzeEntry (recommendations.js).  A             *)
(* recommendation is its type, category, message, tips and priority; a    *)
(* message built from a template is the template and the number put in it. *)

Message(text) == [text |-> text]
Template(text, n) == [text |-> text, number |-> n]

Recommendation(type, category, message, tips, priority) ==
    [type |-> type, category |-> category, message |-> message,
     tips |-> tips, priority |-> priority]

\* a recommendation without the member `tips`
Untipped(type, category, message, priority) ==
    [type |-> type, category |-> category, message |-> message, priority |-> priority]

StartLogging ==
    Untipped("info", "general",
             Message("Start logging your health data to get personalized recommendations!"),
             "low")

\* goals is null or undefined
Nullish(v) == v = JNull \/ v = JUndefined

\* goals?.k || fallback
GoalOr(goals, k, fallback) ==
    IF ~Nullish(goals) /\ Truthy(goals, k) THEN GoalValue(goals, k) ELSE fallback

\* goals.k - value, where goals is an object
Remaining(goals, k, value) ==
    IF HasKey(goals, k) THEN Whole(GoalValue(goals, k) - value) ELSE NaN

SleepAdvice(entry) ==
    IF ~HasKey(entry, "sleep") THEN <<>>
    ELSE IF entry.sleep < 6
    THEN <<Recommendation("warning", "sleep",
               Message("You're getting insufficient sleep. Aim for 7-9 hours per night."),
               <<"Maintain a consistent sleep schedule",
                 "Avoid screens 1 hour before bed",
                 "Create a relaxing bedtime routine",
                 "Keep your bedroom cool and dark">>, "high")>>
    ELSE IF entry.sleep < 7
    THEN <<Recommendation("info", "sleep",
               Message("Your sleep is below optimal. Consider getting more rest."),
               <<"Try to add 30-60 minutes more sleep",
                 "Maintain consistent sleep/wake times">>, "medium")>>
    ELSE IF entry.sleep >= 8
    THEN <<Untipped("success", "sleep",
               Message("Excellent sleep! Keep up the good work!"), "low")>>
    ELSE <<>>

\* the activity rule; Threw where the template reads goals.steps of a
\* null or undefined goals
ActivityAdvice(entry, goals) ==
    IF HasKey(entry, "steps") /\ entry.steps < 2000
    THEN <<Recommendation("warning", "activity",
               Message("Very low activity detected. Try to move more throughout the day."),
               <<"Take short walking breaks every hour",
                 "Use stairs instead of elevators",
                 "Park farther away from destinations",
                 "Try a 10-minute morning walk">>, "high")>>
    ELSE IF HasKey(entry, "steps") /\ entry.steps < GoalOr(goals, "steps", 10000)
    THEN IF Nullish(goals) THEN Threw
         ELSE <<Recommendation("info", "activity",
                    Template("You're ${goals.steps - entry.steps} steps away from your goal!",
                             Remaining(goals, "steps", entry.steps)),
                    <<"Take a quick walk before bed",
                      "Walk while on phone calls",
                      "Do household chores">>, "medium")>>
    ELSE <<Untipped("success", "activity",
               Message("Great job meeting your step goal!"), "low")>>

\* the hydration rule; Threw where the template reads goals.water of a
\* null or undefined goals
HydrationAdvice(entry, goals) ==
    IF HasKey(entry, "water") /\ entry.water < 3
    THEN <<Recommendation("warning", "hydration",
               Message("Low water intake. Dehydration can affect your energy and focus."),
               <<"Keep a water bottle with you",
                 "Set hourly reminders to drink water",
                 "Drink a glass of water before each meal",
                 "Try infusing water with fruits for flavor">>, "high")>>
    ELSE IF HasKey(entry, "water") /\ entry.water < GoalOr(goals, "water", 8)
    THEN IF Nullish(goals) THEN Threw
         ELSE <<Recommendation("info", "hydration",
                    Template("Drink ${goals.water - entry.water} more glasses to reach your goal.",
                             Remaining(goals, "water", entry.water)),
                    <<"Have a glass of water now",
                      "Drink water before bed">>, "medium")>>
    ELSE <<Untipped("success", "hydration",
               Message("Well hydrated! Keep it up!"), "low")>>

HeartAdvice(entry) ==
    IF ~HasKey(entry, "heartRate") THEN <<>>
    ELSE IF entry.heartRate > 100
    THEN <<Recommendation("danger", "heart",
               Message("Elevated resting heart rate detected."),
               <<"Consider stress reduction techniques",
                 "Practice deep breathing exercises",
                 "Ensure adequate rest and recovery",
                 "Consult a doctor if this persists">>, "high")>>
    ELSE IF entry.heartRate < 60 /\ entry.heartRate > 0
    THEN <<Recommendation("info", "heart",
               Message("Low resting heart rate. This can be normal for athletes."),
               <<"Monitor for any unusual symptoms",
                 "Consult a doctor if you feel dizzy or fatigued">>, "medium")>>
    ELSE IF entry.heartRate >= 60 /\ entry.heartRate <= 80
    THEN <<Untipped("success", "heart",
               Message("Heart rate is in healthy range!"), "low")>>
    ELSE <<>>

MoodAdvice(entry) ==
    IF ~HasKey(entry, "mood") THEN <<>>
    ELSE IF entry.mood \in {"tired", "exhausted"}
    THEN <<Recommendation("info", "wellness",
               Message("Feeling tired? Your body might need rest or exercise."),
               <<"Get 15 minutes of fresh air and sunlight",
                 "Take a power nap (20-30 minutes)",
                 "Check your caffeine intake",
                 "Ensure you're getting quality sleep">>, "medium")>>
    ELSE IF entry.mood \in {"stressed", "anxious"}
    THEN <<Recommendation("info", "wellness",
               Message("High stress detected. Consider relaxation techniques."),
               <<"Practice 5 minutes of deep breathing",
                 "Try meditation or mindfulness",
                 "Take a short walk outdoors",
                 "Talk to someone you trust",
                 "Reduce caffeine intake">>, "high")>>
    ELSE <<>>

priorityOrder == [high |-> 0, medium |-> 1, low |-> 2]

WithPriority(s, rank) ==
    SelectSeq(s, LAMBDA r : priorityOrder[r.priority] = rank)

\* recommendations.sort((a, b) => priorityOrder[a.priority] -
\* priorityOrder[b.priority]): a stable sort on three keys
SortByPriority(s) == WithPriority(s, 0) \o WithPriority(s, 1) \o WithPriority(s, 2)

\* analyzeEntry(entry, goals)
AnalyzeEntry(entry, goals) ==
    IF Nullish(entry) THEN ArrayOf(<<StartLogging>>)
    ELSE LET activity  == ActivityAdvice(entry, goals)
             hydration == HydrationAdvice(entry, goals)
         IN  IF activity = Threw \/ hydration = Threw THEN Threw
             ELSE ArrayOf(SortByPriority(SleepAdvice(entry) \o activity \o hydration
                                         \o HeartAdvice(entry) \o MoodAdvice(entry)))

\* entries and goals handed to analyzeEntry
AdviceEntries ==
    {Merge(a, Merge(b, Merge(c, Merge(d, e)))) :
        a \in Opt("sleep", {5, 6, 7, 8}),
        b \in Opt("steps", {1999, 5000, 12000}),
        c \in Opt("water", {2, 5, 8}),
        d \in Opt("heartRate", {0, 50, 70, 90, 101}),
        e \in Opt("mood", {"tired", "stressed", "happy"})}

AdviceGoals ==
    {JUndefined, JNull, EmptyObj, [steps |-> Num(10000), water |-> Num(8)],
     [steps |-> Num(4000)], [water |-> Num(4)]}

AdviceCalls ==
    {[fn |-> "analyzeEntry", entry |-> entry, goals |-> goals] :
        entry \in AdviceEntries \cup {JNull}, goals \in AdviceGoals}

InitAdvice ==
    /\ store = NoItem
    /\ pending = 0
    /\ last = [op |-> "none", ret |-> JUndefined, write |-> "none"]
    /\ fx \in AdviceCalls
    /\ NoTimers
    /\ NoTabs
    /\ NoConversation
    /\ NoAuth
    /\ NoDebounce

RunAnalyzeEntry ==
    /\ fx.fn = "analyzeEntry" /\ ~Returned
    /\ fx' = [fn |-> fx.fn, entry |-> fx.entry, goals |-> fx.goals,
              result |-> AnalyzeEntry(fx.entry, fx.goals)]
    /\ UNCHANGED beyondDashboard

NextAdvice == RunAnalyzeEntry

SpecAdvice == InitAdvice /\ [][NextAdvice]_vars

----------------------------------------------------------------------------
(* AdvancedMedicalChatbot (the chatbot of part_004).  A record of the      *)
(* conversation is its role, its message or intent and its timestamp; the  *)
(* timestamp is the number of the chat call that pushed it.                *)

\* messages the emergency pattern matches, and messages it does not
EmergencyMessages == {"chest pain"}
ChatMessages == EmergencyMessages \cup {"hello"}

\* this.patterns.emergency.test(lowercaseMsg)
IsEmergency(message) == message \in EmergencyMessages

UserRecord(message, now) == [role |-> "user", message |-> message, timestamp |-> now]

AssistantRecord(intent, now) == [role |-> "assistant", intent |-> intent, timestamp |-> now]

\* the number of records chat() cuts the context back to
ContextLimit == 20

\* s.slice(-n)
SliceLast(s, n) == IF Len(s) <= n THEN s ELSE SubSeq(s, Len(s) - n + 1, Len(s))

\* conversationContext after chat(message) at the time `now`: the user's
\* record is pushed; analyzeIntent throws when the patterns are not
\* loaded, and an emergency returns from handleEmergency; otherwise the
\* assistant's record is pushed and the context is cut back
AfterChat(context, loaded, message, now) ==
    LET pushed == Append(context, UserRecord(message, now))
    IN  IF ~loaded \/ IsEmergency(message) THEN pushed
        ELSE LET answered == Append(pushed, AssistantRecord("general", now))
             IN  IF Len(answered) > ContextLimit
                 THEN SliceLast(answered, ContextLimit) ELSE answered

\* init()
ChatbotInit ==
    /\ ~patterns
    /\ patterns' = TRUE
    /\ UNCHANGED <<conversationContext, chats, beyondChat>>

\* chat(userMessage)
Chat(message) ==
    /\ chats.calls < MaxChats
    /\ IsEmergency(message) \/ chats.general < MaxGeneral
    /\ conversationContext' =
           AfterChat(conversationContext, patterns, message, chats.calls + 1)
    /\ chats' = [calls |-> chats.calls + 1,
                 general |-> chats.general + (IF IsEmergency(message) THEN 0 ELSE 1)]
    /\ UNCHANGED <<patterns, beyondChat>>

\* clearConversation()
ClearConversation ==
    /\ conversationContext # <<>>
    /\ conversationContext' = <<>>
    /\ UNCHANGED <<patterns, chats, beyondChat>>

NextChat ==
    \/ ChatbotInit
    \/ \E message \in ChatMessages : Chat(message)
    \/ ClearConversation

SpecChat == Init /\ [][NextChat]_vars

----------------------------------------------------------------------------
(* AuthSystem (assets/js/auth.js).  A string is the sequence of its        *)
(* character codes.  The methods are functions of the record               *)
(* [users, session, currentUser, initialized, ids] and return the record   *)
(* after the call and the value returned.  Times (createdAt, lastLogin)    *)
(* are one value, `a time`; of a session's time only whether it has        *)
(* expired is kept.  generateUserId() is taken to return a fresh id.       *)

\* 'student@example.com', 'Student@Example.com', 'a@b.co', 'A@B.CO', 'ab.co'
StudentEmail      == <<115, 116, 117, 100, 101, 110, 116, 64,
                       101, 120, 97, 109, 112, 108, 101, 46, 99, 111, 109>>
StudentEmailMixed == <<83, 116, 117, 100, 101, 110, 116, 64,
                       69, 120, 97, 109, 112, 108, 101, 46, 99, 111, 109>>
OtherEmail        == <<97, 64, 98, 46, 99, 111>>
OtherEmailUpper   == <<65, 64, 66, 46, 67, 79>>
NoEmail           == <<97, 98, 46, 99, 111>>

\* 'Student@123', 'Passw0rdAa', 'Passw0rdBB', 'weak'
StudentPassword == <<83, 116, 117, 100, 101, 110, 116, 64, 49, 50, 51>>
PasswordAa      == <<80, 97, 115, 115, 119, 48, 114, 100, 65, 97>>
PasswordBB      == <<80, 97, 115, 115, 119, 48, 114, 100, 66, 66>>
WeakPassword    == <<119, 101, 97, 107>>

ATime == [t |-> "time"]

IsUpper(c) == c \in 65..90
IsLower(c) == c \in 97..122
IsDigit(c) == c \in 48..57
IsSpace(c) == c \in {9, 10, 11, 12, 13, 32}

\* s.toLowerCase()
ToLowerCase(s) == [i \in 1..Len(s) |-> IF IsUpper(s[i]) THEN s[i] + 32 ELSE s[i]]

\* /^[^\s@]+@[^\s@]+\.[^\s@]+$/.test(email)
ValidateEmail(email) ==
    \E at \in 2..Len(email) :
        /\ email[at] = 64
        /\ \A i \in 1..Len(email) : ~IsSpace(email[i]) /\ (email[i] = 64 => i = at)
        /\ \E dot \in (at + 2)..(Len(email) - 1) : email[dot] = 46

\* validatePassword(password)
ValidatePassword(password) ==
    /\ Len(password) >= 8
    /\ \E i \in 1..Len(password) : IsLower(password[i])
    /\ \E i \in 1..Len(password) : IsUpper(password[i])
    /\ \E i \in 1..Len(password) : IsDigit(password[i])

\* hashPassword(password): hash = ((hash << 5) - hash) + char, cut to 32
\* bits at each step.  The 32 bits are kept as two halves of 16; the
\* base-36 text of the signed number is one-to-one with them.
RECURSIVE HashFrom(_, _)
HashFrom(hash, s) ==
    IF s = <<>> THEN hash
    ELSE LET low == hash.lo * 31 + Head(s)
         IN  HashFrom([hi |-> (hash.hi * 31 + low \div 65536) % 65536,
                       lo |-> low % 65536], Tail(s))

HashPassword(password) == HashFrom([hi |-> 0, lo |-> 0], password)

\* users.findIndex(u => u.id === id), from 1; 0 when there is none
IndexOfId(list, id) ==
    IF \E i \in 1..Len(list) : list[i].id = id
    THEN CHOOSE i \in 1..Len(list) :
             list[i].id = id /\ \A j \in 1..(i - 1) : list[j].id # id
    ELSE 0

\* getUserById(id)
GetUserById(a, id) ==
    IF IndexOfId(a.users, id) > 0 THEN a.users[IndexOfId(a.users, id)] ELSE JUndefined

\* users.find(u => u.email === wanted)
FindEmail(list, wanted) ==
    IF \E i \in 1..Len(list) : list[i].email = wanted
    THEN list[CHOOSE i \in 1..Len(list) :
                  list[i].email = wanted /\ \A j \in 1..(i - 1) : list[j].email # wanted]
    ELSE JUndefined

\* (variant: the email is compared as it was typed)
GetUserByEmailAsTyped(a, email) == FindEmail(a.users, email)

\* getUserByEmail(email)
GetUserByEmail(a, email) == FindEmail(a.users, ToLowerCase(email))

\* saveUser(user)
SaveUser(a, user) ==
    LET index == IndexOfId(a.users, user.id)
    IN  [a EXCEPT !.users = IF index > 0 THEN [@ EXCEPT ![index] = user]
                            ELSE Append(@, user)]

\* sanitizeUser(user)
SanitizeUser(user) == [k \in DOMAIN user \ {"password"} |-> user[k]]

Failure(a, error) == [auth |-> a, ret |-> [success |-> FALSE, error |-> error]]

\* the sample student, with the first members of the profile
SampleStudent(id) ==
    [id |-> id, email |-> StudentEmail, password |-> HashPassword(StudentPassword),
     profile |-> [name |-> "Rahul Kumar", age |-> 22],
     healthData |-> [smoker |-> FALSE, diabetic |-> FALSE],
     preferences |-> [theme |-> "light", notifications |-> TRUE,
                      language |-> "en", units |-> "metric"],
     goals |-> [steps |-> 10000, water |-> 8, sleep |-> 7, calories |-> 2200,
                exercise |-> 30],
     createdAt |-> ATime, lastLogin |-> JNull]

\* initializeDefaultUsers()
InitializeDefaultUsers(a) ==
    IF Len(a.users) = 0
    THEN SaveUser([a EXCEPT !.ids = @ + 1], SampleStudent(a.ids + 1))
    ELSE a

\* logout()
Logout(a) == [a EXCEPT !.currentUser = JNull, !.session = NoSession]

\* createSession(user)
CreateSession(a, user) ==
    [a EXCEPT !.currentUser = user,
              !.session = [userId |-> user.id, email |-> user.email, expired |-> FALSE]]

\* loadSession()
LoadSession(a) ==
    IF a.session = NoSession THEN a
    ELSE IF a.session.expired THEN Logout(a)
    ELSE IF GetUserById(a, a.session.userId) # JUndefined
    THEN [a EXCEPT !.currentUser = GetUserById(a, a.session.userId)]
    ELSE a

\* init()
AuthInit(a) ==
    IF a.initialized THEN a
    ELSE [LoadSession(InitializeDefaultUsers(a)) EXCEPT !.initialized = TRUE]

\* register(email, password, profile)
Register(a, email, password, profile) ==
    IF ~ValidateEmail(email) THEN Failure(a, "Invalid email format")
    ELSE IF ~ValidatePassword(password)
    THEN Failure(a, "Password must be at least 8 characters with uppercase, lowercase, and number")
    ELSE IF GetUserByEmail(a, email) # JUndefined
    THEN Failure(a, "User already exists with this email")
    ELSE LET user == [id |-> a.ids + 1, email |-> ToLowerCase(email),
                      password |-> HashPassword(password), profile |-> profile,
                      healthData |-> EmptyObj,
                      preferences |-> [theme |-> "light", notifications |-> TRUE],
                      goals |-> [steps |-> 10000, water |-> 8, sleep |-> 7,
                                 calories |-> 2000, exercise |-> 30],
                      createdAt |-> ATime, lastLogin |-> JNull]
         IN  [auth |-> SaveUser([a EXCEPT !.ids = @ + 1], user),
              ret |-> [success |-> TRUE, user |-> SanitizeUser(user)]]

\* login(email, password)
Login(a, email, password) ==
    LET user == GetUserByEmail(a, ToLowerCase(email))
    IN  IF user = JUndefined THEN Failure(a, "User not found")
        ELSE IF user.password # HashPassword(password)
        THEN Failure(a, "Incorrect password")
        ELSE LET seen == [user EXCEPT !.lastLogin = ATime]
             IN  [auth |-> CreateSession(SaveUser(a, seen), seen),
                  ret |-> [success |-> TRUE, user |-> SanitizeUser(seen)]]

\* updateProfile(userId, updates)
UpdateProfile(a, userId, updates) ==
    LET user == GetUserById(a, userId)
    IN  IF user = JUndefined THEN Failure(a, "User not found")
        ELSE LET merged ==
                     [user EXCEPT !.profile = Merge(@, Member(updates, "profile")),
                                  !.healthData = Merge(@, Member(updates, "healthData")),
                                  !.preferences = Merge(@, Member(updates, "preferences")),
                                  !.goals = Merge(@, Member(updates, "goals"))]
                 saved == SaveUser(a, merged)
             IN  [auth |-> IF a.currentUser # JNull /\ a.currentUser.id = userId
                           THEN [saved EXCEPT !.currentUser = merged] ELSE saved,
                  ret |-> [success |-> TRUE, user |-> SanitizeUser(merged)]]

\* changePassword(userId, oldPassword, newPassword)
ChangePassword(a, userId, oldPassword, newPassword) ==
    LET user == GetUserById(a, userId)
    IN  IF user = JUndefined THEN Failure(a, "User not found")
        ELSE IF user.password # HashPassword(oldPassword)
        THEN Failure(a, "Current password is incorrect")
        ELSE IF ~ValidatePassword(newPassword)
        THEN Failure(a, "New password must be at least 8 characters with uppercase, lowercase, and number")
        ELSE [auth |-> SaveUser(a, [user EXCEPT !.password = HashPassword(newPassword)]),
              ret |-> [success |-> TRUE, message |-> "Password changed successfully"]]

\* deleteAccount(userId, password)
DeleteAccount(a, userId, password) ==
    LET user == GetUserById(a, userId)
    IN  IF user = JUndefined THEN Failure(a, "User not found")
        ELSE IF user.password # HashPassword(password)
        THEN Failure(a, "Incorrect password")
        ELSE LET removed == [a EXCEPT !.users = SelectSeq(@, LAMBDA u : u.id # userId)]
             IN  [auth |-> IF a.currentUser # JNull /\ a.currentUser.id = userId
                           THEN Logout(removed) ELSE removed,
                  ret |-> [success |-> TRUE, message |-> "Account deleted successfully"]]

\* isAuthenticated()
IsAuthenticated(a) == a.currentUser # JNull

\* the AuthSystem and its two storage items, as one record
Auth ==
    [users |-> users, session |-> session, currentUser |-> currentUser,
     initialized |-> initialized, ids |-> ids]

\* the call leaves the AuthSystem and the storage as the record `a`
Becomes(a) ==
    /\ users' = a.users
    /\ session' = a.session
    /\ currentUser' = a.currentUser
    /\ initialized' = a.initialized
    /\ ids' = a.ids
    /\ UNCHANGED beyondAuth

Emails    == {StudentEmail, StudentEmailMixed, OtherEmail, OtherEmailUpper, NoEmail}
Passwords == {StudentPassword, PasswordAa, PasswordBB, WeakPassword}
UserIds   == 0..MaxUsers
ProfileUpdates == {[profile |-> [name |-> "a"]]}

CallAuthInit ==
    /\ ~initialized
    /\ users = <<>> => ids < MaxUsers
    /\ Becomes(AuthInit(Auth))

CallRegister(email, password) ==
    /\ ids < MaxUsers
    /\ Becomes(Register(Auth, email, password, EmptyObj).auth)

CallLogin(email, password) == Becomes(Login(Auth, email, password).auth)

CallLogout ==
    /\ currentUser # JNull \/ session # NoSession
    /\ Becomes(Logout(Auth))

CallUpdateProfile(userId, updates) == Becomes(UpdateProfile(Auth, userId, updates).auth)

CallChangePassword(userId, oldPassword, newPassword) ==
    Becomes(ChangePassword(Auth, userId, oldPassword, newPassword).auth)

CallDeleteAccount(userId, password) == Becomes(DeleteAccount(Auth, userId, password).auth)

\* the page is loaded again: a new AuthSystem over the same storage
PageLoads ==
    /\ initialized
    /\ Becomes([Auth EXCEPT !.currentUser = JNull, !.initialized = FALSE])

\* the time passes the session's expiresAt
SessionExpires ==
    /\ session # NoSession
    /\ ~session.expired
    /\ Becomes([Auth EXCEPT !.session.expired = TRUE])

NextAuth ==
    \/ CallAuthInit
    \/ \E email \in Emails, password \in Passwords : CallRegister(email, password)
    \/ \E email \in Emails, password \in Passwords : CallLogin(email, password)
    \/ CallLogout
    \/ \E userId \in UserIds, updates \in ProfileUpdates : CallUpdateProfile(userId, updates)
    \/ \E userId \in UserIds, old \in Passwords, new \in Passwords :
           CallChangePassword(userId, old, new)
    \/ \E userId \in UserIds, password \in Passwords : CallDeleteAccount(userId, password)
    \/ PageLoads
    \/ SessionExpires

SpecAuth == Init /\ [][NextAuth]_vars

----------------------------------------------------------------------------
(* App.debounce (main.js).  The function it returns keeps, in its closure, *)
(* the wait and the handle of its latest timeout.  Its timeouts are in     *)
(* `timers`, each with the arguments of the call that set it; the log      *)
(* records the calls of the function and the runs of func.                 *)

Waits == {0, 1, 2}
Arguments == {"a", "b"}

\* the timeout of `later` set by a call with these arguments
Later(handle, args, due) == [id |-> handle, args |-> args, due |-> due]

\* clearTimeout(handle)
ClearTimeout(T, handle) == {t \in T : t.id # handle}

\* (variant: the earlier timeout is left pending)
AfterCallUncleared(T, handle, args, n, now, wait) ==
    T \cup {Later(n + 1, args, now + wait)}

\* the timeouts after executedFunction(...args): clearTimeout(timeout);
\* timeout = setTimeout(later, wait)
AfterCall(T, handle, args, n, now, wait) ==
    ClearTimeout(T, handle) \cup {Later(n + 1, args, now + wait)}

\* App.debounce(func, wait)
CallDebounce(wait) ==
    /\ debounced = NoFunction
    /\ debounced' = [wait |-> wait, timeout |-> JUndefined]
    /\ UNCHANGED <<log, timerVars, beyondDebounce>>

\* executedFunction(...args)
CallExecutedFunction(args) ==
    /\ debounced # NoFunction
    /\ created < MaxTimers
    /\ timers' = AfterCall(timers, debounced.timeout, args, created, clock, debounced.wait)
    /\ created' = created + 1
    /\ debounced' = [debounced EXCEPT !.timeout = created + 1]
    /\ log' = Append(log, [kind |-> "call", args |-> args, at |-> clock,
                           timeout |-> created + 1])
    /\ UNCHANGED <<clock, permission, shown, cancelled, beyondDebounce>>

\* a due timeout runs later(): clearTimeout(timeout); func(...args)
LaterRuns(t) ==
    /\ t \in timers /\ t.due <= clock
    /\ timers' = ClearTimeout(timers \ {t}, debounced.timeout)
    /\ log' = Append(log, [kind |-> "run", args |-> t.args, at |-> clock,
                           timeout |-> t.id])
    /\ UNCHANGED <<debounced, created, clock, permission, shown, cancelled,
                   beyondDebounce>>

NextDebounce ==
    \/ \E wait \in Waits : CallDebounce(wait)
    \/ \E args \in Arguments : CallExecutedFunction(args)
    \/ \E t \in timers : LaterRuns(t)
    \/ TimePasses

SpecDebounce == Init /\ [][NextDebounce]_vars

----------------------------------------------------------------------------
(* Properties of the record store *)

HasDoc(st)  == GetAll(st, "ok") # JNull
HasList(st) == HasDoc(st) /\ IsArray(GetEntries(st, "ok"))
List(st)    == GetEntries(st, "ok").array

CountDate(s, date) == Cardinality({i \in 1..Len(s) : s[i].date = date})

UniqueDates(s) == \A i, j \in 1..Len(s) : s[i].date = s[j].date => i = j

SortedUnique(s) ==
    \A i \in 1..(Len(s) - 1) : DateValue(s[i].date) > DateValue(s[i + 1].date)

NewestFirst(s) ==
    \A i \in 1..Len(s) : DateValue(s[1].date) >= DateValue(s[i].date)

Writers == {"saveAll", "saveEntry", "deleteEntry", "updateUserProfile",
            "updateGoals", "updateSettings"}

\* C1: saveEntry is an upsert keyed on entry.date.  Wherever a saveEntry(e)
\* completes its write, the document then holds exactly one entry of
\* e.date, getEntryByDate(e.date) returns the old entry of that date
\* overridden by e's fields (e itself when there was none), and saving e
\* again leaves the document as it is.
C1_Upsert ==
    \A e \in EntrySet :
        LET out == SaveEntry(e, store, "ok")
            old == GetEntryByDate(store, "ok", e.date)
        IN  out.write = "done" =>
                /\ CountDate(List(out.store), e.date) = 1
                /\ GetEntryByDate(out.store, "ok", e.date)
                       = (IF old = JUndefined THEN e ELSE Merge(old, e))
                /\ SaveEntry(e, out.store, "ok").store = out.store

\* C2: the skeleton's entries are sorted with unique dates, and from any
\* stored document whose entries are sorted strictly descending by date,
\* every saveEntry and every deleteEntry, whether or not its write succeeds,
\* leaves the stored entries sorted strictly descending (hence without two
\* entries of one date).
StrictlyDescending(st) ==
    /\ st # NoItem /\ Parses(st) /\ Parse(st) # JNull
    /\ HasKey(Parse(st), "entries") /\ IsArray(Parse(st).entries)
    /\ LET s == Parse(st).entries.array
       IN  SortedUnique(s) /\ UniqueDates(s)

C2_SortPreserved ==
    /\ SortedUnique(Skeleton.entries.array)
    /\ StrictlyDescending(store) =>
          \A env \in Envs :
              /\ \A e \in EntrySet : StrictlyDescending(SaveEntry(e, store, env).store)
              /\ \A d \in Dates : StrictlyDescending(DeleteEntry(d, store, env).store)

\* a saveEntry has just written a document of two or more entries, newest first
C2_Witness ==
    /\ last.op = "saveEntry" /\ last.write = "done"
    /\ HasList(store) /\ Len(List(store)) >= 2
    /\ SortedUnique(List(store))

\* C3: in every reachable state the stored entries hold at most one entry
\* per date, and entries[0] is the entry with the most recent date.
C3_UniqueNewestFirst ==
    HasList(store) => UniqueDates(List(store)) /\ NewestFirst(List(store))

\* a payload importJSON must reject: it does not parse, or its value has no
\* entries member that is an array
InvalidPayload(text) ==
    \/ ~Parses(text)
    \/ Parse(text) = JNull
    \/ ~HasKey(Parse(text), "entries")
    \/ ~IsArray(Parse(text).entries)

\* C4: importJSON of an invalid payload returns {success: false, message}
\* without throwing and leaves the stored item as it was.
C4_InvalidImportRejected ==
    \A text \in ImportPayloads, env \in Envs :
        InvalidPayload(text) =>
            LET out == ImportJSON(text, store, env)
            IN  /\ out.ret.t = "result"
                /\ out.ret.success = FALSE
                /\ out.store = store

\* an import has just been rejected while a document with entries is stored
C4_Witness ==
    /\ last.op = "importJSON"
    /\ last.ret.success = FALSE
    /\ last.write = "none"
    /\ HasList(store) /\ Len(List(store)) > 0

\* C5: importJSON(exportJSON()) leaves the document unchanged: getAll()
\* returns the same after the call as before it, whatever the storage does
\* during the export and the import.
C5_RoundTrip ==
    \A envExport \in Envs, envImport \in Envs :
        LET out == ImportJSON(ExportJSON(store, envExport), store, envImport)
        IN  GetAll(out.store, "ok") = GetAll(store, "ok")

\* an exported document with entries and a profile has just been imported
C5_Witness ==
    /\ last.op = "importExported"
    /\ last.ret.success /\ last.write = "done"
    /\ HasList(store) /\ Len(List(store)) > 0
    /\ GetUserProfile(store, "ok") # EmptyObj

\* C6: no store method throws to its caller.
C6_NoThrow ==
    last.op \in Writers \cup {"importJSON", "importExported"} => last.ret # Threw

\* C7: when the storage write of saveAll, saveEntry, deleteEntry or an
\* update method fails, the method returns false and every later getAll()
\* returns what it returned before the call.
FailedWriteHarmless(out) ==
    out.write = "failed" =>
        /\ out.ret = RetBool(FALSE)
        /\ \A envRead \in Envs : GetAll(out.store, envRead) = GetAll(store, envRead)

C8_ImportReportsWrite ==
    (last.op = "importJSON" /\ last.ret.success) => last.write = "done"

\* C9: with any value stored under the key, init() starts no fetch and
\* writes nothing: the stored value is the same after the call.
C9_InitNoOp ==
    store # NoItem =>
        \A env \in Envs :
            LET out == InitCall(store, env)
            IN  /\ out.store = store
                /\ out.write = "none"
                /\ out.ret # [t |-> "awaiting"]

\* init() has just resolved at once on a stored value that does not parse
C9_Witness ==
    /\ last.op = "init" /\ last.ret = [t |-> "resolved"]
    /\ store = BadText /\ pending = 0

\* C10: on writable storage the part of init() after the fetch always
\* stores a document: the fetched dataset when fetch and parse succeeded,
\* the skeleton otherwise; it never throws.
C10_InitStores ==
    /\ \A fetched \in FetchResults :
          LET out == LoadDefaultData(fetched, store, "ok")
          IN  /\ out.write = "done"
              /\ out.ret # Threw
              /\ out.store = JsonText(IF fetched = JUndefined THEN Skeleton ELSE fetched, 0)
    /\ \A fetched \in FetchResults, env \in Envs :
          LoadDefaultData(fetched, store, env).ret # Threw
    /\ (last.op = "loadDefaultData" /\ last.write = "done") =>
          GetAll(store, "ok") = (IF last.ret = RetBool(TRUE) THEN DefaultDataset ELSE Skeleton)

\* the fetch has just failed and the skeleton is the stored document
C10_Witness ==
    /\ last.op = "loadDefaultData" /\ last.ret = RetBool(FALSE)
    /\ last.write = "done"
    /\ GetAll(store, "ok") = Skeleton

----------------------------------------------------------------------------
(* Properties of the read methods and of deleteEntry *)

\* C11: while the stored text does not parse, getAll() returns null and the
\* four getters return their defaults; init() leaves the text alone and starts
\* no fetch, the writers that go through getAll() leave it alone, and
\* saveAll or importJSON replace it only with a write that went through.
C11_MalformedStays ==
    store = BadText =>
        \A env \in Envs :
            /\ GetAll(store, env) = JNull
            /\ GetEntries(store, env) = ArrayOf(<<>>)
            /\ GetGoals(store, env) = EmptyObj
            /\ GetUserProfile(store, env) = EmptyObj
            /\ GetSettings(store, env) = [theme |-> "light", notifications |-> TRUE]
            /\ InitCall(store, env).store = store
            /\ InitCall(store, env).ret # [t |-> "awaiting"]
            /\ \A entry \in EntrySet : SaveEntry(entry, store, env).store = store
            /\ \A date \in Dates : DeleteEntry(date, store, env).store = store
            /\ \A patch \in GoalPatches : UpdateGoals(patch, store, env).store = store
            /\ \A patch \in UserPatches : UpdateUserProfile(patch, store, env).store = store
            /\ \A patch \in SettingPatches : UpdateSettings(patch, store, env).store = store
            /\ \A data \in SaveAllArgs :
                  LET out == SaveAll(data, store, env)
                  IN  out.store # store => out.write = "done"
            /\ \A text \in ImportPayloads :
                  LET out == ImportJSON(text, store, env)
                  IN  out.store # store => (out.write = "done" /\ out.ret.success)

\* getEntries() has just returned the empty list from a text that does not parse
C11_Witness ==
    /\ store = BadText
    /\ last.op = "getEntries" /\ last.ret = ArrayOf(<<>>)

\* the stored entries whose date is not the given one, in their order
Others(s, date) ==
    LET Other(e) == e.date # date
    IN  SelectSeq(s, Other)

\* the stored document has an entries member and it is a list
HasEntries(st) ==
    /\ HasDoc(st)
    /\ HasKey(GetAll(st, "ok"), "entries")
    /\ IsArray(GetAll(st, "ok").entries)

\* C12: on a stored document that has an entries list, deleteEntry(date)
\* raises no error, removes every entry of that date and no other entry, and
\* keeps user, goals and settings; when no entry has the date the document
\* read back is the same as before.
C12_DeleteEntry ==
    HasEntries(store) =>
        \A date \in Dates :
            LET out    == DeleteEntry(date, store, "ok")
                before == GetAll(store, "ok")
                after  == GetAll(out.store, "ok")
            IN  /\ out.ret = RetBool(TRUE)
                /\ DeleteEntry(date, store, "full").ret = RetBool(FALSE)
                /\ HasList(out.store)
                /\ List(out.store) = Others(List(store), date)
                /\ GetUserProfile(out.store, "ok") = GetUserProfile(store, "ok")
                /\ GetGoals(out.store, "ok") = GetGoals(store, "ok")
                /\ GetSettings(out.store, "ok") = GetSettings(store, "ok")
                /\ CountDate(List(store), date) = 0 => after = before

\* a deleteEntry has just written a document that still has an entry
C12_Witness ==
    /\ last.op = "deleteEntry" /\ last.ret = RetBool(TRUE) /\ last.write = "done"
    /\ HasList(store) /\ Len(List(store)) >= 1

\* calendar order of two dates: year, then month, then day
DateLeq(a, b) ==
    \/ a[1] < b[1]
    \/ a[1] = b[1] /\ a[2] < b[2]
    \/ a[1] = b[1] /\ a[2] = b[2] /\ a[3] <= b[3]

\* C13: getEntriesInRange(start, end) returns exactly the stored entries
\* whose date d has start <= d <= end, both ends included; for a date that
\* has one entry, getEntriesInRange(d, d) is the list of that entry alone.
C13_RangeInclusive ==
    IsArray(GetEntries(store, "ok")) =>
        /\ \A startDate \in Dates, endDate \in Dates :
              LET s == List(store)
                  r == GetEntriesInRange(store, "ok", startDate, endDate)
                  I == {i \in 1..Len(s) :
                           DateLeq(startDate, s[i].date) /\ DateLeq(s[i].date, endDate)}
              IN  /\ IsArray(r)
                  /\ Len(r.array) = Cardinality(I)
                  /\ \A k \in 1..Len(r.array) : \E i \in I : r.array[k] = s[i]
                  /\ \A i \in I : \E k \in 1..Len(r.array) : r.array[k] = s[i]
        /\ \A d \in Dates :
              CountDate(List(store), d) = 1 =>
                  GetEntriesInRange(store, "ok", d, d)
                      = ArrayOf(<<List(store)[FindIndex(List(store), d)]>>)

\* getEntriesInRange(d, d) has just returned the one entry of d out of a
\* list of two or more
C13_Witness ==
    /\ last.op = "getEntriesInRange"
    /\ last.arg[1] = last.arg[2]
    /\ IsArray(last.ret) /\ Len(last.ret.array) = 1
    /\ last.ret.array[1].date = last.arg[1]
    /\ Len(List(store)) >= 2

\* the k-th smallest member of a set of indices
Kth(I, k) == CHOOSE i \in I : Cardinality({j \in I : j <= i}) = k

\* the first n of the entries of s at the indices I, in the order of s
FirstOf(s, I, n) ==
    [k \in 1..(IF n < Cardinality(I) THEN n ELSE Cardinality(I)) |-> s[Kth(I, k)]]

\* C14 (as claimed): getLastNDays(n) returns the entries dated in the
\* inclusive window [today-n, today], most recent first, cut to the first n:
\* at most n elements, each dated in the window, and an entry dated in the
\* window, the day today-n included, is missing only when n were returned.
C14_WindowInclusive ==
    IsArray(GetEntries(store, "ok")) =>
        \A days \in DayCounts, now \in Nows :
            LET s == List(store)
                r == GetLastNDays(store, "ok", days, now).array
                W == {i \in 1..Len(s) :
                         /\ DateValue(s[i].date) >= now.day - days
                         /\ DateValue(s[i].date) <= now.day}
            IN  /\ Len(r) <= days
                /\ \A k \in 1..Len(r) : \E i \in W : r[k] = s[i]
                /\ \A k \in 1..(Len(r) - 1) :
                      DateValue(r[k].date) >= DateValue(r[k + 1].date)
                /\ Len(r) < days => \A i \in W : \E k \in 1..Len(r) : r[k] = s[i]

\* C14 (amended): getLastNDays(n) returns, in stored order, the first n of
\* the stored entries whose day starts at or after the instant n days before
\* the call and not after the call: the days after today-n up to today, and
\* the day today-n itself only for a call at the very start of a day.  So the
\* result has at most n elements, each dated in [today-n, today], and it is
\* most recent first when the stored list is.
C14_WindowByInstant ==
    IsArray(GetEntries(store, "ok")) =>
        \A days \in DayCounts, now \in Nows :
            LET s == List(store)
                r == GetLastNDays(store, "ok", days, now).array
                W == {i \in 1..Len(s) :
                         /\ \/ DateValue(s[i].date) > now.day - days
                            \/ DateValue(s[i].date) = now.day - days /\ now.midnight
                         /\ DateValue(s[i].date) <= now.day}
            IN  /\ r = FirstOf(s, W, days)
                /\ Len(r) <= days
                /\ \A k \in 1..Len(r) :
                      /\ DateValue(r[k].date) >= now.day - days
                      /\ DateValue(r[k].date) <= now.day
                /\ SortedUnique(s) => SortedUnique(r)

\* getLastNDays(n), called later than midnight, has just returned fewer than
\* n entries and left out a stored entry dated exactly n days before today
C14_Witness ==
    /\ last.op = "getLastNDays"
    /\ ~last.arg[2].midnight
    /\ IsArray(last.ret) /\ Len(last.ret.array) < last.arg[1]
    /\ IsArray(GetEntries(store, "ok"))
    /\ \E i \in 1..Len(List(store)) :
          DateValue(List(store)[i].date) = last.arg[2].day - last.arg[1]

----------------------------------------------------------------------------
(* Properties of the statistics functions *)

IsInteger(x) == ~IsNaN(x) /\ x.den = 1

ScoreReturned == fx.fn = "calculateHealthScore" /\ Returned

\* C15: for every entries list and every goals object calculateHealthScore
\* returns an integer from 0 to 100: never NaN, a fraction, a negative
\* number or a number above 100.
C15_ScoreInRange ==
    ScoreReturned =>
        /\ IsInteger(fx.result)
        /\ fx.result.num >= 0
        /\ fx.result.num <= 100

\* the score of a list of the one entry e
ScoreOf(e, goals) == CalculateHealthScore(ArrayOf(<<e>>), goals)

\* twice the distance of a heart rate from the midpoint of a goal range
OffMidpoint(heartRate, goal) == Abs(2 * heartRate - (goal.min + goal.max))

\* C16: with goals and the other fields of the latest entry fixed, a larger
\* steps, sleep, water or calories value, or a heartRate closer to the
\* midpoint of the goal range, never gives a smaller score.
C16_Monotone ==
    (ScoreReturned /\ fx.entries # JNull /\ Len(fx.entries.array) > 0) =>
        LET e == fx.entries.array[1]
        IN  /\ \A k \in {"steps", "sleep", "water", "calories"} :
                  HasKey(e, k) =>
                      \A v \in MetricValues[k] :
                          v > e[k] => ~Less(ScoreOf([e EXCEPT ![k] = v], fx.goals), fx.result)
            /\ (/\ HasKey(e, "heartRate")
                /\ HasKey(fx.goals, "heartRate")
                /\ HasKey(fx.goals.heartRate, "min")) =>
                      \A v \in MetricValues.heartRate :
                          OffMidpoint(v, fx.goals.heartRate)
                              < OffMidpoint(e.heartRate, fx.goals.heartRate)
                          => ~Less(ScoreOf([e EXCEPT !.heartRate = v], fx.goals), fx.result)

\* the four metrics that are scored against a numeric goal, and the most
\* each can add; a heart rate inside the goal range adds 15
Weight == [steps |-> 25, sleep |-> 25, water |-> 20, calories |-> 15]

Ratio(k, e, goals) ==
    MathMin(Frac(e[k] * Weight[k], goals[k].number), Whole(Weight[k]))

RECURSIVE Sum(_, _)
Sum(f, keys) ==
    IF keys = {} THEN Whole(0)
    ELSE LET k == CHOOSE x \in keys : TRUE
         IN  Plus(f[k], Sum(f, keys \ {k}))

\* the heartRate component for a goal range
InRangeOrOff(heartRate, goal) ==
    IF goal.min <= heartRate /\ heartRate <= goal.max THEN Whole(15)
    ELSE IF OffMidpoint(heartRate, goal) >= 150 THEN Whole(0)
    ELSE Frac(150 - OffMidpoint(heartRate, goal), 10)

\* the rounded sum of the components that `counted` lets in
RoundedSum(e, goals, counted) ==
    LET part == [k \in DOMAIN Weight |->
                    IF k \in counted THEN Ratio(k, e, goals) ELSE Whole(0)]
        heart == IF "heartRate" \in counted
                 THEN InRangeOrOff(e.heartRate, goals.heartRate) ELSE Whole(0)
    IN  MathRound(Plus(Sum(part, DOMAIN Weight), heart))

BothDefined(e, goals) == DOMAIN e \cap DOMAIN goals

ZeroGoal(goals, k) == "number" \in DOMAIN goals[k] /\ goals[k].number = 0

\* the goal is a range, not a plain number
RangeGoal(goals) ==
    HasKey(goals, "heartRate") => HasKey(goals.heartRate, "min")

\* an entry that has only steps
OnlySteps(e) == DOMAIN e = {"steps"}

\* entries that come after the latest one
OlderScoreEntries ==
    {[steps |-> 0],
     [steps |-> 12000, sleep |-> 8, water |-> 8, heartRate |-> 70, calories |-> 2200]}

\* C17 (as claimed): a component is counted exactly when the entry field and
\* the matching goal are both defined, so an entry with only steps at or above
\* the goal gives 25; where no component so counted divides by a zero goal,
\* the score is the rounded sum of the components so counted.
C17_CountedWhenDefined ==
    (ScoreReturned /\ fx.entries # JNull /\ Len(fx.entries.array) > 0 /\ RangeGoal(fx.goals)) =>
        LET e == fx.entries.array[1]
        IN  /\ (\A k \in BothDefined(e, fx.goals) : ~ZeroGoal(fx.goals, k))
                  => fx.result = RoundedSum(e, fx.goals, BothDefined(e, fx.goals))
            /\ (/\ OnlySteps(e)
                /\ HasKey(fx.goals, "steps")
                /\ e.steps >= fx.goals.steps.number) => fx.result = Whole(25)

\* C17 (amended): the score reads entries[0] only and is the rounded sum of
\* the capped components, a component being counted exactly when the entry
\* field is defined and the matching goal is defined and not zero; a counted
\* heartRate component with a plain-number goal makes the score NaN.  Missing
\* components add 0: empty goals or an empty list give 0, an entry with only
\* steps at or above a positive goal gives 25 and an entry meeting every goal
\* of a full set of positive goals gives 100.
C17_ScoreFormula ==
    ScoreReturned =>
        IF fx.entries = JNull \/ Len(fx.entries.array) = 0 THEN fx.result = Whole(0)
        ELSE
          LET e == fx.entries.array[1]
              counted == {k \in BothDefined(e, fx.goals) : ~ZeroGoal(fx.goals, k)}
          IN  /\ \A older \in OlderScoreEntries :
                    CalculateHealthScore(ArrayOf(<<e, older>>), fx.goals) = fx.result
              /\ IF "heartRate" \in counted /\ ~RangeGoal(fx.goals)
                 THEN fx.result = NaN
                 ELSE fx.result = RoundedSum(e, fx.goals, counted)
              /\ fx.goals = EmptyObj => fx.result = Whole(0)
              /\ (/\ OnlySteps(e)
                  /\ HasKey(fx.goals, "steps")
                  /\ fx.goals.steps.number > 0
                  /\ e.steps >= fx.goals.steps.number) => fx.result = Whole(25)
              /\ (/\ DOMAIN fx.goals = DOMAIN Weight \cup {"heartRate"}
                  /\ DOMAIN e = DOMAIN fx.goals
                  /\ RangeGoal(fx.goals)
                  /\ \A k \in DOMAIN Weight :
                        fx.goals[k].number > 0 /\ e[k] >= fx.goals[k].number
                  /\ fx.goals.heartRate.min <= e.heartRate
                  /\ e.heartRate <= fx.goals.heartRate.max) => fx.result = Whole(100)

\* the score of an entry with steps only has just come out as 0 because the
\* steps goal, though defined, is zero
C17_Witness ==
    /\ ScoreReturned
    /\ fx.entries = ArrayOf(<<[steps |-> 5000]>>)
    /\ HasKey(fx.goals, "steps") /\ fx.goals.steps = Num(0)
    /\ fx.result = Whole(0)

\* the call calculateHealthScore([{steps: 5000}], {steps: 10000, sleep: 8})
Example18 ==
    /\ fx.fn = "calculateHealthScore"
    /\ fx.entries = ArrayOf(<<[steps |-> 5000]>>)
    /\ fx.goals = [steps |-> Num(10000), sleep |-> Num(8)]

\* C18 (as claimed): for the entry {steps: 5000} and the goals {steps: 10000,
\* sleep: 8} calculateHealthScore returns 12.
C18_Returns12 == (Example18 /\ Returned) => fx.result = Whole(12)

\* C18 (amended): for the entry {steps: 5000} and the goals {steps: 10000,
\* sleep: 8} calculateHealthScore returns 13: the sleep component is left out
\* and the steps component 5000 / 10000 * 25 = 12.5 rounds up.
C18_Returns13 ==
    /\ (Example18 /\ Returned) => fx.result = Whole(13)
    /\ Capped(5000, 10000, 25) = Frac(25, 2)

\* that call has returned
C18_Witness == Example18 /\ Returned

FlagsReturned == fx.fn = "detectHealthFlags" /\ Returned

Has(flags, flag) == \E i \in 1..Len(flags) : flags[i] = flag

\* the order the flags are to come in
FlagOrder == <<SleepFlag, HeartRateFlag, WaterFlag, StepsFlag, ChronicFlag>>

Rank(flag) == CHOOSE n \in 1..Len(FlagOrder) : FlagOrder[n] = flag

\* the metric of the entry is there and on the flagged side of its threshold
Below(e, k, limit) == HasKey(e, k) /\ e[k] < limit
Above(e, k, limit) == HasKey(e, k) /\ e[k] > limit

\* C19: on a list with entries detectHealthFlags emits, from the latest entry
\* alone, the sleep flag exactly when sleep < 6, the heartRate flag exactly
\* when heartRate > 100, the water flag exactly when water < 3 and the steps
\* flag exactly when steps < 2000; the flags come in the order sleep,
\* heartRate, water, steps, chronic sleep, each at most once; an empty list
\* gives no flag.
C19_Flags ==
    FlagsReturned =>
        IF fx.entries = JNull \/ Len(fx.entries.array) = 0 THEN fx.result = <<>>
        ELSE
          LET e == fx.entries.array[1]
              r == fx.result
          IN  /\ Has(r, SleepFlag) <=> Below(e, "sleep", 6)
              /\ Has(r, HeartRateFlag) <=> Above(e, "heartRate", 100)
              /\ Has(r, WaterFlag) <=> Below(e, "water", 3)
              /\ Has(r, StepsFlag) <=> Below(e, "steps", 2000)
              /\ \A i \in 1..Len(r) : Has(FlagOrder, r[i])
              /\ \A i, j \in 1..Len(r) : i < j => Rank(r[i]) < Rank(r[j])

\* detectHealthFlags has just returned all five flags
C19_Witness == FlagsReturned /\ Len(fx.result) = 5

\* C20: the chronic flag is emitted exactly when the list has three or more
\* entries and each of the first three has sleep < 6 by the test of the
\* single-day flag; so the chronic flag never comes without the single-day
\* sleep flag.
C20_ChronicImpliesDaily ==
    FlagsReturned =>
        LET r == fx.result
        IN  /\ Has(r, ChronicFlag) <=>
                  /\ fx.entries # JNull
                  /\ Len(fx.entries.array) >= 3
                  /\ \A i \in 1..3 : Below(fx.entries.array[i], "sleep", 6)
            /\ Has(r, ChronicFlag) => Has(r, SleepFlag)

StatsReturned == fx.fn = "calculateStats" /\ Returned

\* the sum of the member k over the entries at the indices I, a missing
\* member counting as 0
RECURSIVE Total(_, _, _)
Total(list, k, I) ==
    IF I = {} THEN 0
    ELSE LET i == CHOOSE x \in I : TRUE
         IN  (IF k \in DOMAIN list[i] THEN list[i][k] ELSE 0) + Total(list, k, I \ {i})

\* C21: calculateStats returns totalEntries equal to the length of the list
\* and, for each of steps, heartRate, sleep, water and calories, the sum of
\* the field over all entries, a missing field counting as 0, divided by the
\* length; for an empty or missing list all six numbers are 0.
C21_Stats ==
    StatsReturned =>
        LET r == fx.result
            Mean(k) ==
                LET list == fx.entries.array
                IN  Frac(Total(list, k, 1..Len(list)), Len(list))
        IN  IF fx.entries = JNull \/ Len(fx.entries.array) = 0
            THEN /\ r.totalEntries = 0
                 /\ r.avgSteps = Whole(0) /\ r.avgHeartRate = Whole(0)
                 /\ r.avgSleep = Whole(0) /\ r.avgWater = Whole(0)
                 /\ r.avgCalories = Whole(0)
            ELSE /\ r.totalEntries = Len(fx.entries.array)
                 /\ r.avgSteps = Mean("steps")
                 /\ r.avgHeartRate = Mean("heartRate")
                 /\ r.avgSleep = Mean("sleep")
                 /\ r.avgWater = Mean("water")
                 /\ r.avgCalories = Mean("calories")
                 /\ \A k \in {"avgSteps", "avgHeartRate", "avgSleep", "avgWater", "avgCalories"} :
                       ~IsNaN(r[k])

\* calculateStats has just averaged three entries of which only some have steps
C21_Witness ==
    /\ StatsReturned
    /\ fx.entries # JNull /\ Len(fx.entries.array) = 3
    /\ CountField(fx.entries.array, "steps") = 2
    /\ fx.result.totalEntries = 3

----------------------------------------------------------------------------
(* Properties of the daily reminder *)

\* C22: whatever the number of scheduleDailyReminder calls, at most one
\* reminder timeout is pending at any moment, at most one reminder is shown at
\* one occurrence of the scheduled time, and once a reminder has been shown
\* exactly one timeout is pending for the next occurrence.
C22_OneReminder ==
    /\ Cardinality(timers) <= 1
    /\ Cardinality(shown) <= 1
    /\ shown # {} => Cardinality(timers) = 1

\* C23: a reminder timeout that was pending when scheduleDailyReminder was
\* called again, or when notifications were switched off in the settings,
\* never shows a reminder.
C23_CancelledNeverShows == shown \cap cancelled = {}

----------------------------------------------------------------------------
(* Properties of concurrent use of the store *)

\* C24: init() stores the default dataset or the skeleton only where no
\* document is stored: a document stored while the fetch of init() is pending
\* is still the stored one when the fetch has settled and init() completes.
C24_InitKeepsDocument ==
    (pending > 0 /\ HasDoc(store)) =>
        \A fetched \in FetchResults, env \in Envs :
            LoadDefaultData(fetched, store, env).store = store

\* the list of a document as getAll() returned it (none counts as empty)
ListOf(data) == IF HasKey(data, "entries") THEN data.entries.array ELSE <<>>

\* the tab has returned from a saveEntry whose write is the stored item,
\* after the other tab completed a saveEntry of another date in between
Overwrote(a) ==
    /\ tabs[a].pc = "returned"
    /\ tabs[a].wrote
    /\ writer = a
    /\ \E d \in tabs[a].missed : d # tabs[a].entry.date

\* C25: last write wins.  When tab A has read the document inside
\* saveEntry, tab B has then completed a saveEntry of another date and A
\* has then written, the stored document is the one A read with A's entry
\* upserted and nothing else: a date B wrote that A had not read is
\* absent from it; A's call and B's call both returned true; and the
\* stored entries are sorted with unique dates when those A read were.
C25_LastWriteWins ==
    \A a \in Tabs :
        Overwrote(a) =>
            LET t    == tabs[a]
                read == ListOf(t.data)
            IN  /\ t.ret = RetBool(TRUE)
                /\ \A b \in Tabs \ {a} :
                       (tabs[b].pc = "returned" /\ tabs[b].wrote)
                           => tabs[b].ret = RetBool(TRUE)
                /\ HasList(store)
                /\ \A k \in {"user", "goals", "settings"} :
                       /\ HasKey(GetAll(store, "ok"), k) = HasKey(t.data, k)
                       /\ HasKey(t.data, k) => Member(GetAll(store, "ok"), k) = Member(t.data, k)
                /\ \A d \in Dates :
                       CountDate(List(store), d) =
                           (IF d = t.entry.date /\ CountDate(read, d) = 0
                            THEN 1 ELSE CountDate(read, d))
                /\ \A d \in t.missed :
                       (d # t.entry.date /\ CountDate(read, d) = 0)
                           => CountDate(List(store), d) = 0
                /\ GetEntryByDate(store, "ok", t.entry.date) =
                       (IF CountDate(read, t.entry.date) = 0 THEN t.entry
                        ELSE Merge(read[FindIndex(read, t.entry.date)], t.entry))
                /\ SortedUnique(read) => SortedUnique(List(store))

\* B's entry, of a date A had not read, has been lost from a sorted document
C25_Witness ==
    \E a \in Tabs :
        /\ Overwrote(a)
        /\ SortedUnique(ListOf(tabs[a].data))
        /\ \E b \in Tabs \ {a} :
               /\ tabs[b].pc = "returned" /\ tabs[b].wrote
               /\ tabs[b].entry.date # tabs[a].entry.date
               /\ CountDate(ListOf(tabs[a].data), tabs[b].entry.date) = 0
               /\ CountDate(List(store), tabs[b].entry.date) = 0

----------------------------------------------------------------------------
(* Properties of the recommendations *)

AdviceReturned == fx.fn = "analyzeEntry" /\ Returned

Categories == {"sleep", "activity", "hydration", "heart", "wellness"}

\* C26: analyzeEntry returns a list for every entry and every goals value;
\* for a null entry the list is the single 'start logging' item, and for
\* any other entry it has all high items before all medium items before
\* all low items and at most one recommendation of each of the categories
\* sleep, activity, hydration, heart and wellness, and none of another.
C26_OrderedByPriority ==
    AdviceReturned =>
        /\ fx.result # Threw
        /\ LET list == fx.result.array
           IN  IF fx.entry = JNull
               THEN /\ Len(list) = 1
                    /\ list[1].category = "general"
                    /\ list[1].priority = "low"
                    /\ list[1].message.text =
                         "Start logging your health data to get personalized recommendations!"
               ELSE /\ \A i, j \in 1..Len(list) :
                           i < j => priorityOrder[list[i].priority]
                                        <= priorityOrder[list[j].priority]
                    /\ \A i, j \in 1..Len(list) :
                           list[i].category = list[j].category => i = j
                    /\ \A i \in 1..Len(list) : list[i].category \in Categories

----------------------------------------------------------------------------
(* Properties of the chatbot *)

\* the records are those of the latest chat calls, in order, none left out
MostRecent(context) ==
    context # <<>> =>
        /\ context[Len(context)].timestamp = chats.calls
        /\ \A i \in 1..(Len(context) - 1) :
               /\ context[i].timestamp <= context[i + 1].timestamp
               /\ context[i + 1].timestamp <= context[i].timestamp + 1

\* C27: after every call of chat, emergencies included, conversationContext
\* holds at most 20 records, and they are the most recent ones.
C27_AtMostTwenty ==
    chats.calls > 0 =>
        /\ Len(conversationContext) <= 20
        /\ MostRecent(conversationContext)

----------------------------------------------------------------------------
(* Properties of the accounts *)

\* a stored user has this email, letter case apart
Registered(email) ==
    \E i \in 1..Len(users) : ToLowerCase(users[i].email) = ToLowerCase(email)

\* C28: no two stored users have the same email compared without regard to
\* letter case, and register with an email that is registered, in any
\* letter case, returns success:false and leaves the stored user list as
\* it is.
C28_UniqueEmails ==
    /\ \A i, j \in 1..Len(users) :
           ToLowerCase(users[i].email) = ToLowerCase(users[j].email) => i = j
    /\ \A email \in Emails, password \in Passwords :
           Registered(email) =>
               LET out == Register(Auth, email, password, EmptyObj)
               IN  /\ out.ret.success = FALSE
                   /\ out.auth.users = users

\* two users are stored, one of them registered, and registering its email
\* in capitals is refused
C28_Witness ==
    /\ Len(users) >= 2
    /\ \E i \in 1..Len(users) : users[i].email = OtherEmail
    /\ Register(Auth, OtherEmailUpper, PasswordAa, EmptyObj).ret.success = FALSE

\* the stored user has the current user's id
Stored(user) == \E i \in 1..Len(users) : users[i].id = user.id

\* the password is one the stored user was given
PasswordOf(user, password) == user.password = HashPassword(password)

\* C29: isAuthenticated() is true only if the current user is in the stored
\* user list and the stored session is that user's; and a login with an
\* email that is not registered, or with a password other than the user's,
\* returns success:false and changes neither the current user, the stored
\* session nor the user list.
C29_Authenticated ==
    /\ IsAuthenticated(Auth) =>
           /\ Stored(currentUser)
           /\ session # NoSession
           /\ session.userId = currentUser.id
    /\ \A email \in Emails, password \in Passwords :
           (\/ ~Registered(email)
            \/ \E i \in 1..Len(users), given \in Passwords :
                   /\ users[i].email = ToLowerCase(email)
                   /\ PasswordOf(users[i], given)
                   /\ password # given)
               => LET out == Login(Auth, email, password)
                  IN  /\ out.ret.success = FALSE
                      /\ out.auth = Auth

----------------------------------------------------------------------------
(* Properties of the debounced function *)

CallsIn(l) == {i \in 1..Len(l) : l[i].kind = "call"}
RunsIn(l)  == {i \in 1..Len(l) : l[i].kind = "run"}

\* the run is by the timeout of the call, with its arguments, not before the
\* wait has elapsed since it
RunOf(k, i) ==
    /\ log[k].timeout = log[i].timeout
    /\ log[k].args = log[i].args
    /\ log[k].at >= log[i].at + debounced.wait

\* the call is the last of a burst by the clock: no call follows it within
\* less than the wait
EndsBurst(i) ==
    \A j \in CallsIn(log) : j > i => log[j].at >= log[i].at + debounced.wait

\* C30 as stated: func runs only after wait has elapsed with no further
\* call, never inside a call, and each burst of calls spaced less than wait
\* apart leads to exactly one run of func, with the arguments of the last
\* call of the burst (once the wait after that call is over).
C30_OncePerBurst ==
    /\ \A k \in RunsIn(log) :
           \E i \in CallsIn(log) :
               i < k /\ RunOf(k, i) /\ \A j \in CallsIn(log) : ~(i < j /\ j < k)
    /\ \A i \in CallsIn(log) :
           (EndsBurst(i) /\ clock > log[i].at + debounced.wait) =>
               Cardinality({k \in RunsIn(log) : k > i /\ RunOf(k, i)}) = 1

\* the call is the last of a burst by the timeouts: no call follows it
\* before func has run
EndsPendingBurst(i) ==
    \A j \in CallsIn(log) : j > i => \E k \in RunsIn(log) : i < k /\ k < j

\* C30, amended: func runs only from the timeout of the latest call, not
\* before wait has elapsed since that call and never inside a call; a burst
\* ends when func runs (a call made while the previous timeout has not yet
\* run, even if due, continues the burst), and each burst leads to exactly
\* one run of func, with the arguments of its last call and by that call's
\* timeout, once the wait after that call is over.
C30_OncePerPendingBurst ==
    /\ \A k \in RunsIn(log) :
           \E i \in CallsIn(log) :
               i < k /\ RunOf(k, i) /\ \A j \in CallsIn(log) : ~(i < j /\ j < k)
    /\ \A i \in CallsIn(log) :
           /\ (EndsPendingBurst(i) /\ clock > log[i].at + debounced.wait) =>
                  Cardinality({k \in RunsIn(log) : k > i /\ RunOf(k, i)}) = 1
           /\ ~EndsPendingBurst(i) =>
                  {k \in RunsIn(log) : log[k].timeout = log[i].timeout} = {}
           /\ Cardinality({k \in RunsIn(log) : log[k].timeout = log[i].timeout}) <= 1

\* a burst of two calls with different arguments has led to one run, with
\* the arguments of the second
C30_Witness ==
    \E i, j, k \in 1..Len(log) :
        /\ j = i + 1 /\ k = j + 1
        /\ log[i].kind = "call" /\ log[j].kind = "call" /\ log[k].kind = "run"
        /\ log[i].args # log[j].args
        /\ log[k].args = log[j].args
        /\ debounced.wait > 0

====
